---- MODULE Spec2Model ----
(***************************************************************************)
(* A model of DrawingEvaluator (src/src/evaluator.py): the evaluation of   *)
(* one action log against the UI layout and optional criteria.             *)
(*                                                                         *)
(* Units.  Screen and canvas coordinates are integers (pixels).  A score   *)
(* is kept in thousandths (1000 = 1.0), a coverage in ten-thousandths      *)
(* (10000 = 1.0), which is the precision the code rounds them to.          *)
(* Indices in diagnostics are 0-based as in the code; sequences of the     *)
(* model are 1-based, so the action at position p has index p - 1.         *)
(***************************************************************************)
EXTENDS Integers, Sequences, FiniteSets, TLC

(***************************************************************************)
(* Bounds of the model.                                                    *)
(***************************************************************************)
MaxLen == 2
MaxDrawLen == 4
MaxStrokeLen == 4
MaxConcurrentLen == 2
MaxFeedbackLen == 3
MaxToolbarLen == 4
MaxScoreErrors == 10
MaxMoveLen == 8
MaxRectangleLen == 3

(***************************************************************************)
(* Program constants.                                                      *)
(***************************************************************************)
ScreenMaxX == 1500
ScreenMaxY == 900
GridSize == 20
ToolTol == 40
ColorTolX == 12
ColorTolY == 8
ColorY == 25
ColorYTol == 20
ColorXMin == 405
ColorXMax == 741
MaxActionsWarn == 1000
PenaltyTool == 150
PenaltyColor == 50
PenaltySegments == 150
PenaltyCoverage == 120
PenaltyError == 80
PenaltyWarning == 20
Bonus == 50
BonusMinActions == 10
BonusMaxActions == 500
BonusMinScore == 200
FullScore == 1000

(***************************************************************************)
(* The layout, read once by __init__ from UI_CONFIG.json.  The file is not *)
(* part of the sources; the canvas geometry is the one the diagnostics of  *)
(* _build_coordinate_error_context name (right edge 1090, bottom edge 770  *)
(* for a 1000 x 700 canvas), the tool and colour tables are the ones the   *)
(* __main__ scenario and _count_color_changes are consistent with.         *)
(***************************************************************************)
CanvasWidth == 1000
CanvasHeight == 700
CanvasOffsetX == 90
CanvasOffsetY == 70

tool_positions ==
    << [name |-> "pen",       x |-> 245, y |-> 25],
       [name |-> "eraser",    x |-> 295, y |-> 25],
       [name |-> "rectangle", x |-> 345, y |-> 25],
       [name |-> "circle",    x |-> 195, y |-> 25],
       [name |-> "line",      x |-> 145, y |-> 25] >>

color_positions ==
    << [x |-> 421, y |-> 25, hex |-> "#000000"],
       [x |-> 437, y |-> 25, hex |-> "#FFFFFF"],
       [x |-> 453, y |-> 25, hex |-> "#FF0000"] >>

(* The fields of the evaluator object after __init__. *)
NewEvaluator ==
    [ canvas_width    |-> CanvasWidth,
      canvas_height   |-> CanvasHeight,
      canvas_offset_x |-> CanvasOffsetX,
      canvas_offset_y |-> CanvasOffsetY,
      color_positions |-> color_positions,
      tool_positions  |-> tool_positions,
      tolerance       |-> ToolTol ]

(***************************************************************************)
(* Actions of a log.  An entry of the list is a mapping (kind "dict") or   *)
(* anything else (kind "other": a number, a string, null).  In a mapping   *)
(* the "action" field is absent ("") or a string; x and y are absent       *)
(* ("abs"), numeric ("num", the value in x / y) or present but not numeric *)
(* ("str", e.g. "abc").                                                    *)
(***************************************************************************)
Act(t, xk, x, yk, y) ==
    [kind |-> "dict", action |-> t, xk |-> xk, x |-> x, yk |-> yk, y |-> y]

At(t, x, y) == Act(t, "num", x, "num", y)
Bare(t)     == Act(t, "abs", 0, "abs", 0)
NotADict    == [kind |-> "other", action |-> "", xk |-> "abs", x |-> 0,
                yk |-> "abs", y |-> 0]

HasX(a)  == a.xk # "abs"
HasY(a)  == a.yk # "abs"
HasXY(a) == HasX(a) /\ HasY(a)
NumXY(a) == a.xk = "num" /\ a.yk = "num"
(* action.get("action"): None when the field is absent. *)
GetAction(a) == a.action
(* action.get("x", 0), action.get("y", 0) *)
GetX0(a) == IF a.xk = "abs" THEN [k |-> "num", v |-> 0] ELSE [k |-> a.xk, v |-> a.x]
GetY0(a) == IF a.yk = "abs" THEN [k |-> "num", v |-> 0] ELSE [k |-> a.yk, v |-> a.y]

ValidActions == {"moveTo", "click", "mouseDown", "mouseUp"}

Abs(n) == IF n < 0 THEN -n ELSE n
Min(a, b) == IF a < b THEN a ELSE b
Max(a, b) == IF a > b THEN a ELSE b

RECURSIVE SeqSum(_)
SeqSum(s) == IF s = << >> THEN 0 ELSE Head(s) + SeqSum(Tail(s))

(* Concatenation of the sequences f(1), ..., f(n), in order. *)
RECURSIVE FlatTo(_, _)
FlatTo(f, n) == IF n = 0 THEN << >> ELSE FlatTo(f, n - 1) \o f[n]

(***************************************************************************)
(* _count_actions.  action.get raises AttributeError on an entry that is   *)
(* not a mapping.                                                          *)
(***************************************************************************)
CountOf(actions, t) == Cardinality({p \in 1..Len(actions) : GetAction(actions[p]) = t})

CountActionsRaises(actions) == \E p \in 1..Len(actions) : actions[p].kind # "dict"

CountActions(actions) ==
    [ moveTo    |-> CountOf(actions, "moveTo"),
      click     |-> CountOf(actions, "click"),
      mouseDown |-> CountOf(actions, "mouseDown"),
      mouseUp   |-> CountOf(actions, "mouseUp"),
      unknown   |-> Cardinality({p \in 1..Len(actions) :
                                   GetAction(actions[p]) \notin ValidActions}) ]

(***************************************************************************)
(* _check_syntax_errors                                                    *)
(***************************************************************************)
SyntaxError(i, msg) == [type |-> "SYNTAX_ERROR", index |-> i, message |-> msg]

SyntaxErrorsAt(a, i) ==
    IF a.action = ""
    THEN << SyntaxError(i, "Missing 'action' field") >>
    ELSE (IF a.action = "moveTo" /\ ~HasXY(a)
          THEN << SyntaxError(i, "requires 'x' and 'y' coordinates") >>
          ELSE << >>)
         \o
         (IF a.action \notin ValidActions
          THEN << SyntaxError(i, "Unknown action type") >>
          ELSE << >>)

CheckSyntaxErrors(actions) ==
    FlatTo([p \in 1..Len(actions) |-> SyntaxErrorsAt(actions[p], p - 1)], Len(actions))

(***************************************************************************)
(* _check_coordinate_errors.  float() of a non-numeric value is caught and *)
(* reported; the screen rectangle is closed; a mouseDown is checked        *)
(* against the closed canvas rectangle as well.                            *)
(***************************************************************************)
CoordinateError(i, msg) == [type |-> "COORDINATE_ERROR", index |-> i, message |-> msg]

OutOfScreenHalfOpen(x, y) == x < 0 \/ x >= ScreenMaxX \/ y < 0 \/ y >= ScreenMaxY

OutOfScreen(x, y) == x < 0 \/ x > ScreenMaxX \/ y < 0 \/ y > ScreenMaxY

OutOfCanvas(self, x, y) ==
    LET canvas_x == x - self.canvas_offset_x
        canvas_y == y - self.canvas_offset_y
    IN  canvas_x < 0 \/ canvas_x > self.canvas_width
        \/ canvas_y < 0 \/ canvas_y > self.canvas_height

CoordinateErrorsAt(self, a, i) ==
    IF ~HasXY(a) THEN << >>
    ELSE IF ~NumXY(a) THEN << SyntaxError(i, "Invalid coordinate types") >>
    ELSE (IF OutOfScreen(a.x, a.y)
          THEN << CoordinateError(i, "Coordinates out of screen bounds") >>
          ELSE << >>)
         \o
         (IF GetAction(a) = "mouseDown" /\ OutOfCanvas(self, a.x, a.y)
          THEN << CoordinateError(i, "Drawing outside canvas area") >>
          ELSE << >>)

CheckCoordinateErrors(self, actions) ==
    FlatTo([p \in 1..Len(actions) |-> CoordinateErrorsAt(self, actions[p], p - 1)],
           Len(actions))

(***************************************************************************)
(* _check_efficiency_warnings                                              *)
(***************************************************************************)
IsMove(actions, p) == p <= Len(actions) /\ GetAction(actions[p]) = "moveTo"

(* The positions i (1-based) at which three consecutive moveTo start. *)
PairMoveStarts(actions) ==
    {p \in 1..Len(actions) : IsMove(actions, p) /\ IsMove(actions, p + 1)}

TripleMoveStarts(actions) ==
    {p \in 1..Len(actions) : IsMove(actions, p) /\ IsMove(actions, p + 1)
                               /\ IsMove(actions, p + 2)}

SetMin(S) == CHOOSE m \in S : \A n \in S : m <= n

UnclosedOnly(down_count, up_count) == down_count > up_count

Unmatched(down_count, up_count) == down_count # up_count

CheckEfficiencyWarnings(actions) ==
    LET down_count == CountOf(actions, "mouseDown")
        up_count   == CountOf(actions, "mouseUp")
        starts     == TripleMoveStarts(actions)
    IN  (IF Len(actions) > MaxActionsWarn
         THEN << [type |-> "EFFICIENCY_WARNING", message |-> "Very high action count",
                  a |-> Len(actions), b |-> 0] >>
         ELSE << >>)
        \o
        (IF starts # {}
         THEN << [type |-> "EFFICIENCY_WARNING",
                  message |-> "Multiple consecutive moveTo actions at index",
                  a |-> SetMin(starts) - 1, b |-> 0] >>
         ELSE << >>)
        \o
        (IF Unmatched(down_count, up_count)
         THEN << [type |-> "LOGIC_ERROR", message |-> "Unmatched mouseDown and mouseUp",
                  a |-> down_count, b |-> up_count] >>
         ELSE << >>)

(***************************************************************************)
(* Linear scans of the tool and colour tables.  A coordinate is a tagged   *)
(* value [k, v].  The code tests  abs(x - ex) < tol and abs(y - ey) < tol   *)
(* entry by entry and stops at the first hit: a non-numeric x raises       *)
(* TypeError at the first entry, a non-numeric y at the first entry whose  *)
(* x window holds x (the "and" never reaches y before that).               *)
(***************************************************************************)
Num(v) == [k |-> "num", v |-> v]
ValX(a) == [k |-> a.xk, v |-> a.x]
ValY(a) == [k |-> a.yk, v |-> a.y]

InWinClosed(v, c, tol, strict) == Abs(v - c) <= tol

InWin(v, c, tol, strict) == IF strict THEN Abs(v - c) < tol ELSE Abs(v - c) <= tol

ScanRaises(X, Y, table, tolx, toly, strict) ==
    /\ Len(table) > 0
    /\ \/ X.k = "str"
       \/ /\ Y.k = "str"
          /\ \E e \in 1..Len(table) : InWin(X.v, table[e].x, tolx, strict)

(* The first entry both windows hold, 0 when there is none. *)
FirstHit(X, Y, table, tolx, toly, strict) ==
    LET hits == {e \in 1..Len(table) :
                    /\ InWin(X.v, table[e].x, tolx, strict)
                    /\ InWin(Y.v, table[e].y, toly, strict)}
    IN  IF hits = {} THEN 0 ELSE SetMin(hits)

ToolScanRaises(self, X, Y) == ScanRaises(X, Y, self.tool_positions, ToolTol, ToolTol, TRUE)
ToolHit(self, X, Y) == FirstHit(X, Y, self.tool_positions, ToolTol, ToolTol, TRUE)

ColorScanRaises(self, X, Y) ==
    ScanRaises(X, Y, self.color_positions, ColorTolX, ColorTolY, FALSE)
ColorHit(self, X, Y) == FirstHit(X, Y, self.color_positions, ColorTolX, ColorTolY, FALSE)

NextIsClick(actions, p) == p + 1 <= Len(actions) /\ GetAction(actions[p + 1]) = "click"

(* The result of a pass: a value, or an exception that escapes it. *)
Ok(v) == [raised |-> FALSE, value |-> v]
Raised == [raised |-> TRUE, value |-> 0]

(***************************************************************************)
(* _count_tool_changes                                                     *)
(***************************************************************************)
ToolChangeRaisesAt(self, actions, p) ==
    LET a == actions[p]
    IN  \/ GetAction(a) = "click" /\ ToolScanRaises(self, GetX0(a), GetY0(a))
        \/ /\ GetAction(a) = "moveTo"
           /\ NextIsClick(actions, p)
           /\ ToolScanRaises(self, GetX0(a), GetY0(a))

CountToolChanges(self, actions) ==
    IF \E p \in 1..Len(actions) : ToolChangeRaisesAt(self, actions, p)
    THEN Raised
    ELSE Ok(Cardinality({p \in 1..Len(actions) :
                /\ GetAction(actions[p]) = "click"
                /\ ToolHit(self, GetX0(actions[p]), GetY0(actions[p])) # 0}))

(***************************************************************************)
(* _count_color_changes: clicks in the colour strip                        *)
(*   405 <= x <= 741 and abs(y - 25) < 20.                                 *)
(***************************************************************************)
InColorStripX(v) == ColorXMin <= v /\ v <= ColorXMax

ColorChangeRaisesAt(a) ==
    /\ GetAction(a) = "click"
    /\ \/ GetX0(a).k = "str"
       \/ InColorStripX(GetX0(a).v) /\ GetY0(a).k = "str"

CountColorChanges(actions) ==
    IF \E p \in 1..Len(actions) : ColorChangeRaisesAt(actions[p])
    THEN Raised
    ELSE Ok(Cardinality({p \in 1..Len(actions) :
                /\ GetAction(actions[p]) = "click"
                /\ InColorStripX(GetX0(actions[p]).v)
                /\ Abs(GetY0(actions[p]).v - ColorY) < ColorYTol}))

(***************************************************************************)
(* _detect_exact_colors_used: one hex code per click that resolves, and    *)
(* one per moveTo that resolves and is immediately followed by a click.    *)
(***************************************************************************)
ResolvesColorAt(actions, p) ==
    \/ GetAction(actions[p]) = "click"
    \/ GetAction(actions[p]) = "moveTo" /\ NextIsClick(actions, p)

ExactColorsAt(self, actions, p) ==
    LET a == actions[p]
        h == ColorHit(self, GetX0(a), GetY0(a))
    IN  IF ResolvesColorAt(actions, p) /\ h # 0
        THEN << self.color_positions[h].hex >>
        ELSE << >>

DetectExactColorsUsed(self, actions) ==
    IF \E p \in 1..Len(actions) :
          /\ ResolvesColorAt(actions, p)
          /\ ColorScanRaises(self, GetX0(actions[p]), GetY0(actions[p]))
    THEN Raised
    ELSE Ok(FlatTo([p \in 1..Len(actions) |-> ExactColorsAt(self, actions, p)],
                   Len(actions)))

(***************************************************************************)
(* _count_drawing_segments                                                 *)
(***************************************************************************)
SegmentStepEveryDown(s, a) ==
    IF GetAction(a) = "mouseDown"
    THEN [segments |-> s.segments + 1, in_segment |-> TRUE]
    ELSE IF GetAction(a) = "mouseUp"
    THEN [s EXCEPT !.in_segment = FALSE]
    ELSE s

SegmentStep(s, a) ==
    IF GetAction(a) = "mouseDown"
    THEN (IF ~s.in_segment
          THEN [segments |-> s.segments + 1, in_segment |-> TRUE]
          ELSE s)
    ELSE IF GetAction(a) = "mouseUp"
    THEN [s EXCEPT !.in_segment = FALSE]
    ELSE s

RECURSIVE SegmentFold(_, _)
SegmentFold(actions, p) ==
    IF p = 0 THEN [segments |-> 0, in_segment |-> FALSE]
    ELSE SegmentStep(SegmentFold(actions, p - 1), actions[p])

CountDrawingSegments(actions) == SegmentFold(actions, Len(actions)).segments

(***************************************************************************)
(* Rounding.  round(v, 4) of a non-negative quotient n / d, in units of    *)
(* the last kept digit: to nearest, ties to even.                          *)
(***************************************************************************)
RoundDiv(n, d) ==
    LET q == n \div d
        r == n % d
    IN  IF 2 * r < d THEN q
        ELSE IF 2 * r > d THEN q + 1
        ELSE IF q % 2 = 0 THEN q ELSE q + 1

(* int(n / d): truncation toward zero. *)
TruncDiv(n, d) == IF n >= 0 THEN n \div d ELSE -((-n) \div d)

CovUnit == 10000

(***************************************************************************)
(* _estimate_canvas_coverage: the bounding box of the canvas points seen   *)
(* while the button is down, over the canvas area.                         *)
(***************************************************************************)
InCanvasRel(self, cx, cy) ==
    0 <= cx /\ cx <= self.canvas_width /\ 0 <= cy /\ cy <= self.canvas_height

CoarseStep(self, s, a) ==
    LET drawing == IF GetAction(a) = "mouseDown" THEN TRUE
                   ELSE IF GetAction(a) = "mouseUp" THEN FALSE
                   ELSE s.is_drawing
        canvas_x == a.x - self.canvas_offset_x
        canvas_y == a.y - self.canvas_offset_y
    IN  IF s.raised THEN s
        ELSE IF drawing /\ HasXY(a)
        THEN (IF ~NumXY(a) THEN [s EXCEPT !.raised = TRUE]
              ELSE IF InCanvasRel(self, canvas_x, canvas_y)
              THEN [s EXCEPT !.is_drawing = drawing,
                             !.positions = s.positions \cup {<<canvas_x, canvas_y>>}]
              ELSE [s EXCEPT !.is_drawing = drawing])
        ELSE [s EXCEPT !.is_drawing = drawing]

RECURSIVE CoarseFold(_, _, _)
CoarseFold(self, actions, p) ==
    IF p = 0 THEN [is_drawing |-> FALSE, positions |-> {}, raised |-> FALSE]
    ELSE CoarseStep(self, CoarseFold(self, actions, p - 1), actions[p])

SetMax(S) == CHOOSE m \in S : \A n \in S : m >= n

EstimateCanvasCoverage(self, actions) ==
    LET s  == CoarseFold(self, actions, Len(actions))
        xs == {q[1] : q \in s.positions}
        ys == {q[2] : q \in s.positions}
        bbox_area == (SetMax(xs) - SetMin(xs)) * (SetMax(ys) - SetMin(ys))
        canvas_area == self.canvas_width * self.canvas_height
    IN  IF s.raised THEN Raised
        ELSE IF s.positions = {} THEN Ok(0)
        ELSE Ok(RoundDiv(bbox_area, canvas_area \div CovUnit))

(***************************************************************************)
(* _fill_shape_in_grid.  A cell is <<gy, gx>>.                             *)
(***************************************************************************)
CellOf(c, size) == Min((c * GridSize) \div size, GridSize - 1)

FillRectangle(self, cx1, cy1, cx2, cy2) ==
    LET min_x == Min(cx1, cx2)
        max_x == Max(cx1, cx2)
        min_y == Min(cy1, cy2)
        max_y == Max(cy1, cy2)
        min_gx == Max(0, TruncDiv(min_x * GridSize, self.canvas_width))
        max_gx == Min(GridSize - 1, TruncDiv(max_x * GridSize, self.canvas_width))
        min_gy == Max(0, TruncDiv(min_y * GridSize, self.canvas_height))
        max_gy == Min(GridSize - 1, TruncDiv(max_y * GridSize, self.canvas_height))
    IN  {<<gy, gx>> : gy \in min_gy..max_gy, gx \in min_gx..max_gx}

(* The polar sweep has a single radial sample, r = 0, when the radius is   *)
(* below 20: every sample is the centre.  Larger radii need cos and sin    *)
(* and are outside the inputs of the model.                                *)
FillCircle(self, cx1, cy1, cx2, cy2) ==
    IF InCanvasRel(self, cx1, cy1)
    THEN {<<CellOf(cy1, self.canvas_height), CellOf(cx1, self.canvas_width)>>}
    ELSE {}

(* Sample i of steps: (cx1 + i * dx / (steps - 1), cy1 + i * dy / (steps - 1)), *)
(* kept as numerators over m = max(steps - 1, 1).                          *)
FillLine(self, cx1, cy1, cx2, cy2) ==
    LET dx == cx2 - cx1
        dy == cy2 - cy1
        steps == Max(Abs(dx), Abs(dy)) + 1
        m == Max(steps - 1, 1)
        nx(i) == cx1 * m + i * dx
        ny(i) == cy1 * m + i * dy
        inside(i) == /\ 0 <= nx(i) /\ nx(i) <= self.canvas_width * m
                     /\ 0 <= ny(i) /\ ny(i) <= self.canvas_height * m
    IN  {<<Min((ny(i) * GridSize) \div (self.canvas_height * m), GridSize - 1),
           Min((nx(i) * GridSize) \div (self.canvas_width * m), GridSize - 1)>> :
            i \in {j \in 0..(steps - 1) : inside(j)}}

FillShapeInGrid(self, tool, start_pos, end_pos) ==
    LET cx1 == start_pos.x - self.canvas_offset_x
        cy1 == start_pos.y - self.canvas_offset_y
        cx2 == end_pos.x - self.canvas_offset_x
        cy2 == end_pos.y - self.canvas_offset_y
    IN  IF tool = "rectangle" THEN FillRectangle(self, cx1, cy1, cx2, cy2)
        ELSE IF tool = "circle" THEN FillCircle(self, cx1, cy1, cx2, cy2)
        ELSE IF tool = "line" THEN FillLine(self, cx1, cy1, cx2, cy2)
        ELSE {}

(***************************************************************************)
(* _estimate_canvas_coverage_accurate: the DrawingState scratch and one    *)
(* step of the loop per action.                                            *)
(***************************************************************************)
Pos(xk, x, yk, y) == [xk |-> xk, x |-> x, yk |-> yk, y |-> y]
PosOf(a) == Pos(a.xk, a.x, a.yk, a.y)
PosNum(q) == q.xk = "num" /\ q.yk = "num"

ShapeTools == {"rectangle", "circle", "line"}
PenTools == {"pen", "eraser"}

DrawingState0 ==
    [ grid |-> {}, is_drawing |-> FALSE, current_tool |-> "pen",
      has_down |-> FALSE, mouse_down_pos |-> Pos("num", 0, "num", 0),
      last_pos |-> Pos("num", 0, "num", 0), raised |-> FALSE ]

(* "Track tool selection": the tool after the action, and whether the scan raises. *)
SelectRaises(self, actions, p) ==
    LET a == actions[p]
    IN  \/ GetAction(a) = "click" /\ HasXY(a) /\ ToolScanRaises(self, ValX(a), ValY(a))
        \/ GetAction(a) = "moveTo" /\ ToolScanRaises(self, GetX0(a), GetY0(a))

SelectedTool(self, actions, p, current_tool) ==
    LET a == actions[p]
        h == ToolHit(self, GetX0(a), GetY0(a))
    IN  IF GetAction(a) = "click" /\ HasXY(a) /\ h # 0
        THEN self.tool_positions[h].name
        ELSE IF GetAction(a) = "moveTo" /\ h # 0 /\ NextIsClick(actions, p)
        THEN self.tool_positions[h].name
        ELSE current_tool

ToggleCells(grid, cells) == (grid \ cells) \cup (cells \ grid)

(* grid[grid_y, grid_x] = 1: a cell is marked or not, however often it is hit. *)
MarkCells(grid, cells) == grid \cup cells

AccurateStep(self, s, actions, p) ==
    LET a == actions[p]
        last == IF HasXY(a) THEN PosOf(a) ELSE s.last_pos
        tool == SelectedTool(self, actions, p, s.current_tool)
        isDown == GetAction(a) = "mouseDown"
        isUp == GetAction(a) = "mouseUp"
        fills == isUp /\ s.is_drawing /\ s.has_down /\ tool \in ShapeTools
        up_pos == IF HasXY(a) THEN PosOf(a) ELSE last
        fillRaises == fills /\ ~(PosNum(s.mouse_down_pos) /\ PosNum(up_pos))
        filled == IF fills /\ ~fillRaises
                  THEN FillShapeInGrid(self, tool, s.mouse_down_pos, up_pos)
                  ELSE {}
        drawing == IF isDown THEN TRUE ELSE IF isUp THEN FALSE ELSE s.is_drawing
        tracks == drawing /\ tool \in PenTools /\ HasXY(a)
        canvas_x == a.x - self.canvas_offset_x
        canvas_y == a.y - self.canvas_offset_y
        marked == IF tracks /\ NumXY(a) /\ InCanvasRel(self, canvas_x, canvas_y)
                  THEN {<<CellOf(canvas_y, self.canvas_height),
                          CellOf(canvas_x, self.canvas_width)>>}
                  ELSE {}
    IN  IF s.raised THEN s
        ELSE IF SelectRaises(self, actions, p) \/ fillRaises \/ (tracks /\ ~NumXY(a))
        THEN [s EXCEPT !.raised = TRUE]
        ELSE [ grid |-> MarkCells(s.grid \cup filled, marked),
               is_drawing |-> drawing,
               current_tool |-> tool,
               has_down |-> IF isDown THEN TRUE ELSE IF isUp THEN FALSE ELSE s.has_down,
               mouse_down_pos |-> IF isDown THEN up_pos ELSE s.mouse_down_pos,
               last_pos |-> last,
               raised |-> FALSE ]

RECURSIVE AccurateFold(_, _, _)
AccurateFold(self, actions, p) ==
    IF p = 0 THEN DrawingState0
    ELSE AccurateStep(self, AccurateFold(self, actions, p - 1), actions, p)

(* filled_cells / 400 rounded to 4 decimals, in ten-thousandths. *)
EstimateCanvasCoverageAccurate(self, actions) ==
    LET s == AccurateFold(self, actions, Len(actions))
    IN  IF s.raised THEN Raised
        ELSE Ok(RoundDiv(Cardinality(s.grid) * CovUnit, GridSize * GridSize))

(***************************************************************************)
(* _extract_spatial_constraints.  A prompt is modelled by the set of the   *)
(* keywords it contains as substrings (so a prompt containing "top-left"   *)
(* contains "top" and "left" too); the empty prompt contains none.  The    *)
(* result is the region, "" when the prompt names none.                    *)
(***************************************************************************)
ExtractSpatialConstraints(prompt) ==
    LET has(k) == k \in prompt
    IN  IF prompt = {} THEN ""
        ELSE IF has("top-left") \/ has("upper-left") \/ has("top left") THEN "top-left"
        ELSE IF has("top-right") \/ has("upper-right") \/ has("top right") THEN "top-right"
        ELSE IF has("bottom-left") \/ has("lower-left") \/ has("bottom left")
             THEN "bottom-left"
        ELSE IF has("bottom-right") \/ has("lower-right") \/ has("bottom right")
             THEN "bottom-right"
        ELSE IF has("center") \/ has("middle") \/ has("centre") THEN "center"
        ELSE IF has("top") \/ has("upper") THEN "top"
        ELSE IF has("bottom") \/ has("lower") THEN "bottom"
        ELSE IF has("left") THEN "left"
        ELSE IF has("right") THEN "right"
        ELSE ""

(***************************************************************************)
(* _calculate_drawing_centroid.  current_pos is the last moveTo carrying   *)
(* both coordinates; a mouseDown appends it when it lies in the half-open  *)
(* canvas rectangle.  The first branch of the if/elif chain takes every    *)
(* moveTo that has coordinates, so the last branch (a moveTo while         *)
(* drawing) is never taken and appends nothing.                            *)
(***************************************************************************)
OnCanvasHalfOpen(self, x, y) ==
    /\ self.canvas_offset_x <= x /\ x < self.canvas_offset_x + self.canvas_width
    /\ self.canvas_offset_y <= y /\ y < self.canvas_offset_y + self.canvas_height

CentroidStep(self, s, a) ==
    LET cur == s.current_pos
        xInRange == self.canvas_offset_x <= cur.x
                    /\ cur.x < self.canvas_offset_x + self.canvas_width
    IN  IF s.raised THEN s
        ELSE IF GetAction(a) = "moveTo" /\ HasXY(a)
        THEN [s EXCEPT !.has_pos = TRUE, !.current_pos = PosOf(a)]
        ELSE IF GetAction(a) = "mouseDown" /\ s.has_pos
        THEN (IF cur.xk = "str" \/ (xInRange /\ cur.yk = "str")
              THEN [s EXCEPT !.raised = TRUE]
              ELSE IF OnCanvasHalfOpen(self, cur.x, cur.y)
              THEN [s EXCEPT !.is_drawing = TRUE,
                             !.drawing_points = Append(s.drawing_points, <<cur.x, cur.y>>)]
              ELSE [s EXCEPT !.is_drawing = TRUE])
        ELSE IF GetAction(a) = "mouseUp"
        THEN [s EXCEPT !.is_drawing = FALSE]
        ELSE s

RECURSIVE CentroidFold(_, _, _)
CentroidFold(self, actions, p) ==
    IF p = 0
    THEN [ drawing_points |-> << >>, is_drawing |-> FALSE, has_pos |-> FALSE,
           current_pos |-> Pos("num", 0, "num", 0), raised |-> FALSE ]
    ELSE CentroidStep(self, CentroidFold(self, actions, p - 1), actions[p])

(* The centroid (rel_x, rel_y) = (sx / n, sy / n), canvas-relative, kept   *)
(* as the sums and the count; n = 0 stands for None.                       *)
CalculateDrawingCentroid(self, actions) ==
    LET s == CentroidFold(self, actions, Len(actions))
        n == Len(s.drawing_points)
    IN  IF s.raised THEN Raised
        ELSE Ok([ n  |-> n,
                  sx |-> SeqSum([i \in 1..n |-> s.drawing_points[i][1]])
                           - n * self.canvas_offset_x,
                  sy |-> SeqSum([i \in 1..n |-> s.drawing_points[i][2]])
                           - n * self.canvas_offset_y ])

(***************************************************************************)
(* _evaluate_spatial_accuracy.  The centre of a region, times 6:           *)
(* third_w / 2 = W / 6, W / 2 = 3 W / 6, W - third_w / 2 = 5 W / 6.        *)
(* The accuracy  max(0, 1 - distance / max_distance)  is kept exactly as   *)
(*   [k = "val", d2, n]  with  d2 = (6 n distance)^2,                      *)
(* k = "zero" for the 0.0 of a log without drawing, k = "null" for None.   *)
(***************************************************************************)
Regions == {"top-left", "top", "top-right", "left", "center", "right",
            "bottom-left", "bottom", "bottom-right"}

RegionCenterAtThirds(self, region) ==
    LET col == IF region \in {"top-left", "left", "bottom-left"} THEN 2
               ELSE IF region \in {"top", "center", "bottom"} THEN 3 ELSE 4
        row == IF region \in {"top-left", "top", "top-right"} THEN 2
               ELSE IF region \in {"left", "center", "right"} THEN 3 ELSE 4
    IN  <<col * self.canvas_width, row * self.canvas_height>>

RegionCenter6(self, region) ==
    LET col == IF region \in {"top-left", "left", "bottom-left"} THEN 1
               ELSE IF region \in {"top", "center", "bottom"} THEN 3 ELSE 5
        row == IF region \in {"top-left", "top", "top-right"} THEN 1
               ELSE IF region \in {"left", "center", "right"} THEN 3 ELSE 5
    IN  <<col * self.canvas_width, row * self.canvas_height>>

NullAccuracy == [k |-> "null", d2 |-> 0, n |-> 0]
ZeroAccuracy == [k |-> "zero", d2 |-> 0, n |-> 0]

(* None, and not 0.0, for a log without drawing. *)
EvaluateSpatialAccuracyNullWithoutDrawing(self, actions, region) ==
    LET c == CalculateDrawingCentroid(self, actions)
        t == RegionCenter6(self, region)
        dx == 6 * c.value.sx - c.value.n * t[1]
        dy == 6 * c.value.sy - c.value.n * t[2]
    IN  IF region = "" THEN Ok(NullAccuracy)
        ELSE IF c.raised THEN Raised
        ELSE IF c.value.n = 0 \/ region \notin Regions THEN Ok(NullAccuracy)
        ELSE Ok([k |-> "val", d2 |-> dx * dx + dy * dy, n |-> c.value.n])

EvaluateSpatialAccuracy(self, actions, region) ==
    LET c == CalculateDrawingCentroid(self, actions)
        t == RegionCenter6(self, region)
        dx == 6 * c.value.sx - c.value.n * t[1]
        dy == 6 * c.value.sy - c.value.n * t[2]
    IN  IF region = "" THEN Ok(NullAccuracy)
        ELSE IF c.raised THEN Raised
        ELSE IF c.value.n = 0 THEN Ok(ZeroAccuracy)
        ELSE IF region \notin Regions THEN Ok(NullAccuracy)
        ELSE Ok([k |-> "val", d2 |-> dx * dx + dy * dy, n |-> c.value.n])

(* max_distance squared *)
Diagonal2(self) ==
    self.canvas_width * self.canvas_width + self.canvas_height * self.canvas_height

(* spatial_accuracy >= pct / 100, for a value that is not None.  With      *)
(* d = distance: 1 - d / diag >= pct / 100  iff                            *)
(* (6 n d)^2 <= (100 - pct)^2 36 n^2 diag^2 / 10000; diag^2 is a multiple  *)
(* of 10000 for the canvas of the layout.                                  *)
AccuracyAtLeastPct(self, acc, pct) ==
    IF acc.k = "zero" THEN pct <= 0
    ELSE acc.d2 <= (100 - pct) * (100 - pct) * 36 * (Diagonal2(self) \div 10000)
                     * acc.n * acc.n

(***************************************************************************)
(* _calculate_action_efficiency, in thousandths; None when the minimum     *)
(* estimate is 0.                                                          *)
(***************************************************************************)
NoNumber == [null |-> TRUE, v |-> 0]
Number(v) == [null |-> FALSE, v |-> v]

CalculateActionEfficiency(actions, criteria) ==
    LET actual == Len(actions)
        min_actions ==
            (IF criteria.has_tools THEN Len(criteria.required_tools) ELSE 0)
            + (IF criteria.has_colors THEN Len(criteria.required_colors) ELSE 0)
            + (IF criteria.has_segments THEN criteria.min_segments * 3 ELSE 0)
    IN  IF min_actions = 0 THEN NoNumber
        ELSE IF 2 * actual <= 3 * min_actions THEN Number(1000)
        ELSE IF actual <= 2 * min_actions THEN Number(800)
        ELSE IF actual <= 3 * min_actions THEN Number(600)
        ELSE Number(400)

(***************************************************************************)
(* Tool checks.  ToolIndex is the place of a tool in the layout, 0 when    *)
(* the layout has no such tool.                                            *)
(***************************************************************************)
ToolIndex(self, tool) ==
    LET S == {e \in 1..Len(self.tool_positions) : self.tool_positions[e].name = tool}
    IN  IF S = {} THEN 0 ELSE SetMin(S)

(* abs(x - tx) < 40 and abs(y - ty) < 40 against one button. *)
ButtonRaises(X, Y, b) == X.k = "str" \/ (InWin(X.v, b.x, ToolTol, TRUE) /\ Y.k = "str")
ButtonHit(X, Y, b) == InWin(X.v, b.x, ToolTol, TRUE) /\ InWin(Y.v, b.y, ToolTol, TRUE)

(* The two selection patterns, tested at position p against button b. *)
PatternTested(actions, p) ==
    \/ GetAction(actions[p]) = "moveTo"
    \/ GetAction(actions[p]) = "click" /\ HasX(actions[p])

PatternRaises(actions, p, b) ==
    PatternTested(actions, p) /\ ButtonRaises(GetX0(actions[p]), GetY0(actions[p]), b)

PatternSelects(actions, p, b) ==
    /\ PatternTested(actions, p)
    /\ ButtonHit(GetX0(actions[p]), GetY0(actions[p]), b)
    /\ GetAction(actions[p]) = "moveTo" => NextIsClick(actions, p)

(* The first position at which the selection loop stops: by a hit or by an *)
(* exception; 0 when it runs to the end.                                   *)
SelectionStop(actions, b) ==
    LET S == {p \in 1..Len(actions) : PatternRaises(actions, p, b)
                                        \/ PatternSelects(actions, p, b)}
    IN  IF S = {} THEN 0 ELSE SetMin(S)

(* The loose flag of _check_criteria: tool_<T>_used. *)
LooseToolUsed(self, actions, tool) ==
    LET t == ToolIndex(self, tool)
        b == self.tool_positions[t]
        stop == SelectionStop(actions, b)
    IN  IF t = 0 THEN Ok(FALSE)
        ELSE IF stop = 0 THEN Ok(FALSE)
        ELSE IF PatternRaises(actions, stop, b) THEN Raised
        ELSE Ok(TRUE)

(* _verify_tool_actually_used: the second loop, from the selection on.     *)
OtherButtons(self, t) == {e \in 1..Len(self.tool_positions) : e # t}

UseEvent(self, actions, q, t) ==
    LET a == actions[q]
        X == GetX0(a)
        Y == GetY0(a)
        others == OtherButtons(self, t)
    IN  IF GetAction(a) = "mouseDown" THEN "used"
        ELSE IF GetAction(a) \in {"moveTo", "click"}
        THEN (IF others # {} /\ (X.k = "str" \/ (Y.k = "str" /\ \E e \in others :
                                     InWin(X.v, self.tool_positions[e].x, ToolTol, TRUE)))
              THEN "raise"
              ELSE IF \E e \in others : ButtonHit(X, Y, self.tool_positions[e])
              THEN "other"
              ELSE "none")
        ELSE "none"

VerifyToolActuallyUsed(self, actions, tool) ==
    LET t == ToolIndex(self, tool)
        b == self.tool_positions[t]
        stop == SelectionStop(actions, b)
        tool_selected_idx == IF GetAction(actions[stop]) = "moveTo" THEN stop + 1 ELSE stop
        events == {q \in (tool_selected_idx + 1)..Len(actions) :
                       UseEvent(self, actions, q, t) # "none"}
        first == UseEvent(self, actions, SetMin(events), t)
    IN  IF t = 0 THEN Ok([selected |-> FALSE, used |-> FALSE])
        ELSE IF stop = 0 THEN Ok([selected |-> FALSE, used |-> FALSE])
        ELSE IF PatternRaises(actions, stop, b) THEN Raised
        ELSE IF events = {} THEN Ok([selected |-> TRUE, used |-> FALSE])
        ELSE IF first = "raise" THEN Raised
        ELSE Ok([selected |-> TRUE, used |-> first = "used"])

(***************************************************************************)
(* Criteria.  A criteria value is None (present = FALSE) or a mapping with *)
(* any of the keys; "if criteria" is false for None and for {}.            *)
(***************************************************************************)
NoCriteria ==
    [ present |-> FALSE,
      has_tools |-> FALSE, required_tools |-> << >>,
      has_colors |-> FALSE, required_colors |-> << >>,
      has_segments |-> FALSE, min_segments |-> 0,
      has_coverage |-> FALSE, min_coverage |-> 0,
      has_prompt |-> FALSE, prompt |-> {} ]

EmptyCriteria == [NoCriteria EXCEPT !.present = TRUE]

TruthyWhenPresent(criteria) == criteria.present

Truthy(criteria) ==
    /\ criteria.present
    /\ \/ criteria.has_tools \/ criteria.has_colors \/ criteria.has_segments
       \/ criteria.has_coverage \/ criteria.has_prompt

SeqRange(s) == {s[i] : i \in 1..Len(s)}

(***************************************************************************)
(* _check_criteria.  criteria_met is a mapping; the model keeps one record *)
(* with the per-tool keys as a function over the required tools.           *)
(***************************************************************************)
(* The distinct elements of s, in the order of their first occurrence: the *)
(* order in which a dict receives its keys.                                *)
RECURSIVE Dedupe(_)
Dedupe(s) ==
    IF s = << >> THEN << >>
    ELSE LET front == Dedupe(SubSeq(s, 1, Len(s) - 1))
             last == s[Len(s)]
         IN  IF \E i \in 1..Len(front) : front[i] = last THEN front
             ELSE Append(front, last)

NoCriteriaMet ==
    [ tools |-> << >>, tool_order |-> << >>,
      has_segments |-> FALSE, min_segments_met |-> TRUE, actual_segments |-> 0,
      has_colors |-> FALSE, colors_changed |-> 0, min_colors_met |-> TRUE,
      colors_exact_used |-> {}, colors_matched |-> 0, colors_missing |-> {},
      min_colors_exact_met |-> TRUE,
      has_coverage |-> FALSE, canvas_coverage |-> 0, min_coverage_met |-> TRUE,
      canvas_coverage_accurate |-> 0, min_coverage_accurate_met |-> TRUE ]

CheckCriteriaRaises(self, actions, criteria) ==
    \/ /\ criteria.has_tools
       /\ \E tool \in SeqRange(criteria.required_tools) :
             \/ LooseToolUsed(self, actions, tool).raised
             \/ VerifyToolActuallyUsed(self, actions, tool).raised
    \/ /\ criteria.has_colors
       /\ \/ CountColorChanges(actions).raised
          \/ DetectExactColorsUsed(self, actions).raised
    \/ /\ criteria.has_coverage
       /\ \/ EstimateCanvasCoverage(self, actions).raised
          \/ EstimateCanvasCoverageAccurate(self, actions).raised

CheckCriteria(self, actions, criteria) ==
    LET required == SeqRange(criteria.required_colors)
        used == SeqRange(DetectExactColorsUsed(self, actions).value)
        color_clicks == CountColorChanges(actions).value
        coverage == EstimateCanvasCoverage(self, actions).value
        accurate_coverage == EstimateCanvasCoverageAccurate(self, actions).value
        actual_segments == CountDrawingSegments(actions)
    IN  [ tools |->
            IF criteria.has_tools
            THEN [tool \in SeqRange(criteria.required_tools) |->
                    [ used |-> LooseToolUsed(self, actions, tool).value,
                      selected |-> VerifyToolActuallyUsed(self, actions, tool).value.selected,
                      actually_used |-> VerifyToolActuallyUsed(self, actions, tool).value.used ]]
            ELSE << >>,
          tool_order |-> IF criteria.has_tools THEN criteria.required_tools ELSE << >>,
          has_segments |-> criteria.has_segments,
          min_segments_met |->
            IF criteria.has_segments THEN actual_segments >= criteria.min_segments ELSE TRUE,
          actual_segments |-> IF criteria.has_segments THEN actual_segments ELSE 0,
          has_colors |-> criteria.has_colors,
          colors_changed |-> IF criteria.has_colors THEN color_clicks ELSE 0,
          min_colors_met |->
            IF criteria.has_colors THEN color_clicks >= Len(criteria.required_colors)
            ELSE TRUE,
          colors_exact_used |-> IF criteria.has_colors THEN used ELSE {},
          colors_matched |->
            IF criteria.has_colors THEN Cardinality(required \cap used) ELSE 0,
          colors_missing |-> IF criteria.has_colors THEN required \ used ELSE {},
          min_colors_exact_met |->
            IF criteria.has_colors
            THEN Cardinality(required \cap used) >= Cardinality(required)
            ELSE TRUE,
          has_coverage |-> criteria.has_coverage,
          canvas_coverage |-> IF criteria.has_coverage THEN coverage ELSE 0,
          min_coverage_met |->
            IF criteria.has_coverage THEN coverage >= criteria.min_coverage ELSE TRUE,
          canvas_coverage_accurate |->
            IF criteria.has_coverage THEN accurate_coverage ELSE 0,
          min_coverage_accurate_met |->
            IF criteria.has_coverage THEN accurate_coverage >= criteria.min_coverage
            ELSE TRUE ]

(***************************************************************************)
(* The result of evaluate.  A key that a result does not carry is marked   *)
(* by its has_ flag; status "raised" stands for an exception that escapes  *)
(* evaluate (no result is returned).                                       *)
(***************************************************************************)
NoBreakdown == [moveTo |-> 0, click |-> 0, mouseDown |-> 0, mouseUp |-> 0, unknown |-> 0]

NoClassification ==
    [ spatial_errors |-> << >>, tool_errors |-> << >>, color_errors |-> << >>,
      planning_errors |-> << >>, syntax_errors |-> << >> ]

BlankMetrics ==
    [ tool_changes |-> 0, color_changes |-> 0, drawing_segments |-> 0,
      canvas_coverage |-> 0, canvas_coverage_accurate |-> 0,
      exact_colors_used |-> << >>,
      has_spatial |-> FALSE, spatial_accuracy |-> NullAccuracy,
      spatial_constraints |-> "",
      has_efficiency |-> FALSE, action_efficiency |-> NoNumber ]

BlankResult ==
    [ status |-> "none", total_actions |-> 0,
      has_breakdown |-> FALSE, action_breakdown |-> NoBreakdown,
      errors |-> << >>, warnings |-> << >>, metrics |-> BlankMetrics,
      has_criteria_met |-> FALSE, criteria_met |-> NoCriteriaMet,
      has_colors_required |-> FALSE, colors_required |-> 0,
      has_min_coverage |-> FALSE, min_coverage |-> 0,
      score |-> 0,
      has_classification |-> FALSE, error_classification |-> NoClassification ]

RaisedResult == [BlankResult EXCEPT !.status = "raised"]

(* The result for an input that is not a list. *)
DegenerateResult ==
    [BlankResult EXCEPT
        !.status = "ok",
        !.errors = << SyntaxError(-1, "Actions must be a list/array") >>]

(***************************************************************************)
(* _calculate_score.  The running score is the fraction num / den of a     *)
(* thousandth: den is the required coverage when the proportional coverage *)
(* penalty applies, and 1 otherwise.  The code computes in binary floating *)
(* point; the model computes exactly.                                      *)
(***************************************************************************)
(* criteria_met.get(key, default) *)
GetOr(has, value, default) == IF has THEN value ELSE default

(* The keys of criteria_met are strings; the model writes a key as the     *)
(* sequence of the words that its underscores separate.  ToolWords gives   *)
(* the words of each tool name that the inputs of this module use.         *)
ToolWords(tool) ==
    CASE tool = "tool_x" -> << "tool", "x" >>
      [] tool = "pen_actually" -> << "pen", "actually" >>
      [] OTHER -> << tool >>

UsedKey(words) == << "tool" >> \o words \o << "used" >>
SelectedKey(words) == << "tool" >> \o words \o << "selected" >>
ActuallyUsedKey(words) == << "tool" >> \o words \o << "actually", "used" >>

(* key.replace('tool_', ''): every word "tool" that an underscore follows. *)
RECURSIVE RemoveToolPrefix(_)
RemoveToolPrefix(key) ==
    IF Len(key) <= 1 THEN key
    ELSE IF Head(key) = "tool" THEN RemoveToolPrefix(Tail(key))
    ELSE << Head(key) >> \o RemoveToolPrefix(Tail(key))

(* name.replace('_used', ''): every word "used" that an underscore precedes. *)
RemoveUsedSuffix(key) ==
    IF key = << >> THEN key
    ELSE << Head(key) >> \o SelectSeq(Tail(key), LAMBDA w : w # "used")

EndsWith(key, suffix) ==
    /\ Len(key) >= Len(suffix)
    /\ SubSeq(key, Len(key) - Len(suffix) + 1, Len(key)) = suffix

(* The per-tool assignments of _check_criteria, in the order it makes them. *)
RECURSIVE ToolEntries(_, _)
ToolEntries(criteria_met, n) ==
    IF n = 0 THEN << >>
    ELSE LET tool == criteria_met.tool_order[n]
             flags == criteria_met.tools[tool]
             words == ToolWords(tool)
         IN  ToolEntries(criteria_met, n - 1) \o
               << [key |-> UsedKey(words), value |-> flags.used],
                  [key |-> SelectedKey(words), value |-> flags.selected],
                  [key |-> ActuallyUsedKey(words), value |-> flags.actually_used] >>

(* The loop over criteria_met.items(): a key that ends in _actually_used   *)
(* is penalised when false; a key tool_..._used is penalised when false    *)
(* and the key built from its stripped name is absent.                     *)
ToolKeyPenalised(key, value, keys) ==
    IF EndsWith(key, << "actually", "used" >>) THEN ~value
    ELSE IF Head(key) = "tool" /\ Len(key) > 1 /\ key[Len(key)] = "used"
    THEN LET tool_name == RemoveUsedSuffix(RemoveToolPrefix(key))
         IN  ActuallyUsedKey(tool_name) \notin keys /\ ~value
    ELSE FALSE

(* The value a key holds after all the assignments: the last one made. *)
ToolEntryValue(entries, key) ==
    entries[SetMax({i \in 1..Len(entries) : entries[i].key = key})].value

ToolPenalties(criteria_met) ==
    LET entries == ToolEntries(criteria_met, Len(criteria_met.tool_order))
        keys == {entries[i].key : i \in 1..Len(entries)}
    IN  PenaltyTool * Cardinality({key \in keys :
               ToolKeyPenalised(key, ToolEntryValue(entries, key), keys)})

ColorPenalty(results) ==
    LET criteria_met == results.criteria_met
        colors_required == IF results.has_colors_required THEN results.colors_required ELSE 0
    IN  IF criteria_met.has_colors
        THEN (IF ~criteria_met.min_colors_exact_met
              THEN PenaltyColor * Max(0, colors_required - criteria_met.colors_matched)
              ELSE 0)
        ELSE (IF ~GetOr(criteria_met.has_colors, criteria_met.min_colors_met, TRUE)
              THEN PenaltyColor * Max(0, colors_required - criteria_met.colors_changed)
              ELSE 0)

SegmentPenaltyDefaultFalse(criteria_met) ==
    IF ~GetOr(criteria_met.has_segments, criteria_met.min_segments_met, FALSE)
    THEN PenaltySegments ELSE 0

SegmentPenalty(criteria_met) ==
    IF ~GetOr(criteria_met.has_segments, criteria_met.min_segments_met, TRUE)
    THEN PenaltySegments ELSE 0

(* The flat penalty of the coarse check, whenever that check fails. *)
CoverageDeficitCoarse(results) ==
    IF results.criteria_met.has_coverage /\ ~results.criteria_met.min_coverage_met
    THEN [num |-> 1, den |-> 1]
    ELSE [num |-> 0, den |-> 1]

(* The proportional coverage penalty is penalty_num / penalty_den. *)
CoverageDeficit(results) ==
    LET required == IF results.has_min_coverage THEN results.min_coverage ELSE 0
        applies == /\ results.criteria_met.has_coverage
                   /\ ~results.criteria_met.min_coverage_accurate_met
                   /\ required > 0
    IN  IF applies
        THEN [num |-> Max(0, required - results.metrics.canvas_coverage_accurate),
              den |-> required]
        ELSE [num |-> 0, den |-> 1]

(* len(errors) * 0.08 and len(warnings) * 0.02 *)
DiagnosticsPenaltyPerAction(results) ==
    Cardinality({results.errors[i].index : i \in 1..Len(results.errors)}) * PenaltyError
      + Len(results.warnings) * PenaltyWarning

DiagnosticsPenalty(results) ==
    Len(results.errors) * PenaltyError + Len(results.warnings) * PenaltyWarning

(* The code keeps the running score in a binary float and subtracts the    *)
(* penalties one after the other, so a running score that is exactly 0.2   *)
(* can come out one unit in the last place below 0.2.  ShortOfFifth lists  *)
(* the penalties for which it does, as                                     *)
(*   << tool penalties, missing colours, segment penalties,                *)
(*      coverage deficit, required coverage, errors, warnings >>,          *)
(* for up to 12 errors and, with no coverage deficit (0 of 1), up to 4     *)
(* tool penalties, 4 missing colours and 3 warnings; with a required       *)
(* coverage of 1%, up to 2 tool penalties, 2 missing colours, 2 warnings.  *)
ShortOfFifth ==
    { << 0, 0, 0, 0, 1, 10, 0 >>, << 0, 1, 1, 0, 1, 7, 2 >>, << 1, 0, 1, 0, 1, 6, 1 >>,
      << 1, 1, 0, 0, 1, 7, 2 >>, << 1, 2, 1, 0, 1, 5, 0 >>, << 2, 0, 0, 0, 1, 6, 1 >>,
      << 2, 1, 1, 0, 1, 3, 3 >>, << 2, 2, 0, 0, 1, 5, 0 >>,
      << 0, 3, 1, 0, 1, 6, 1 >>, << 0, 4, 0, 0, 1, 7, 2 >>, << 1, 3, 0, 0, 1, 6, 1 >>,
      << 1, 4, 1, 0, 1, 3, 3 >>, << 2, 3, 1, 0, 1, 2, 2 >>, << 2, 4, 0, 0, 1, 3, 3 >>,
      << 0, 0, 0, 50, 100, 9, 1 >>, << 0, 0, 0, 100, 100, 8, 2 >>,
      << 0, 0, 1, 75, 100, 7, 0 >>, << 0, 1, 0, 25, 100, 9, 0 >>,
      << 0, 1, 0, 75, 100, 8, 1 >>, << 0, 1, 1, 100, 100, 6, 0 >>,
      << 0, 2, 0, 100, 100, 7, 1 >>, << 0, 2, 1, 25, 100, 6, 2 >>,
      << 1, 0, 0, 75, 100, 7, 0 >>, << 1, 0, 1, 50, 100, 5, 2 >>,
      << 1, 1, 0, 100, 100, 6, 0 >>, << 1, 1, 1, 25, 100, 5, 1 >>,
      << 1, 1, 1, 75, 100, 4, 2 >>, << 1, 2, 0, 25, 100, 6, 2 >>,
      << 1, 2, 1, 100, 100, 3, 2 >>, << 2, 0, 0, 50, 100, 5, 2 >>,
      << 2, 0, 1, 25, 100, 4, 0 >>, << 2, 0, 1, 75, 100, 3, 1 >>,
      << 2, 1, 0, 25, 100, 5, 1 >>, << 2, 1, 0, 75, 100, 4, 2 >>,
      << 2, 1, 1, 50, 100, 3, 0 >>, << 2, 1, 1, 100, 100, 2, 1 >>,
      << 2, 2, 0, 100, 100, 3, 2 >>, << 2, 2, 1, 75, 100, 2, 0 >> }

RunningScoreShort(results) ==
    LET cov == CoverageDeficit(results)
    IN  << ToolPenalties(results.criteria_met) \div PenaltyTool,
           ColorPenalty(results) \div PenaltyColor,
           SegmentPenalty(results.criteria_met) \div PenaltySegments,
           cov.num, cov.den, Len(results.errors), Len(results.warnings) >>
          \in ShortOfFifth

(* 10 <= action_count <= 500 and score >= 0.2, the running score being     *)
(* num / den thousandths.                                                  *)
BonusApplies(results, num, den) ==
    /\ BonusMinActions <= results.total_actions
    /\ results.total_actions <= BonusMaxActions
    /\ num >= BonusMinScore * den
    /\ ~(num = BonusMinScore * den /\ RunningScoreShort(results))

ClampUpperOnly(score) == Min(FullScore, score)

Clamp(score) == Max(0, Min(FullScore, score))

CalculateScore(results) ==
    LET criteria_met == results.criteria_met
        cov == CoverageDeficit(results)
        flat == FullScore - ToolPenalties(criteria_met) - ColorPenalty(results)
                  - SegmentPenalty(criteria_met)
                  - DiagnosticsPenalty(results)
        num == flat * cov.den - PenaltyCoverage * cov.num
        withBonus == IF BonusApplies(results, num, cov.den)
                     THEN num + Bonus * cov.den ELSE num
    IN  Clamp(RoundDiv(withBonus, cov.den))

(***************************************************************************)
(* _classify_errors                                                        *)
(***************************************************************************)
(* name.replace('_actually_used', ''): every pair of words "actually",    *)
(* "used" that an underscore precedes.                                     *)
RECURSIVE RemoveActuallyUsedPairs(_)
RemoveActuallyUsedPairs(words) ==
    IF Len(words) < 2 THEN words
    ELSE IF words[1] = "actually" /\ words[2] = "used"
    THEN RemoveActuallyUsedPairs(SubSeq(words, 3, Len(words)))
    ELSE << Head(words) >> \o RemoveActuallyUsedPairs(Tail(words))

RemoveActuallyUsedSuffix(key) ==
    IF key = << >> THEN key
    ELSE << Head(key) >> \o RemoveActuallyUsedPairs(Tail(key))

(* The string that the words spell: the inverse of ToolWords. *)
JoinWords(words) ==
    IF Len(words) = 1 THEN words[1]
    ELSE IF words = << "tool", "x" >> THEN "tool_x"
    ELSE IF words = << "pen", "actually" >> THEN "pen_actually"
    ELSE ""

(* The loop over the keys of criteria_met, in the order the mapping        *)
(* received them: one entry for every false key that ends in               *)
(* _actually_used, named by what is left of the key.                       *)
ToolErrors(criteria_met) ==
    LET entries == ToolEntries(criteria_met, Len(criteria_met.tool_order))
        order == Dedupe([i \in 1..Len(entries) |-> entries[i].key])
        errorAt(i) ==
            IF /\ EndsWith(order[i], << "actually", "used" >>)
               /\ ~ToolEntryValue(entries, order[i])
            THEN << [type |-> "missing_required_tool",
                     tool |-> JoinWords(RemoveActuallyUsedSuffix(
                                            RemoveToolPrefix(order[i])))] >>
            ELSE << >>
    IN  FlatTo([i \in 1..Len(order) |-> errorAt(i)], Len(order))

ColorErrorsAt(criteria, exact_colors_used, i) ==
    IF criteria.required_colors[i] \notin SeqRange(exact_colors_used)
    THEN << [type |-> "missing_required_color", color |-> criteria.required_colors[i]] >>
    ELSE << >>

LowAccuracyPct == 70

ClassifyErrors(self, results, criteria) ==
    LET criteria_met == results.criteria_met
        metrics == results.metrics
        nc == IF criteria.has_colors THEN Len(criteria.required_colors) ELSE 0
        lowAccuracy == /\ metrics.spatial_accuracy.k # "null"
                       /\ ~AccuracyAtLeastPct(self, metrics.spatial_accuracy, LowAccuracyPct)
    IN  [ tool_errors |-> ToolErrors(criteria_met),
          color_errors |->
            FlatTo([i \in 1..nc |-> ColorErrorsAt(criteria, metrics.exact_colors_used, i)], nc),
          spatial_errors |->
            (IF criteria.has_coverage
                /\ metrics.canvas_coverage_accurate < criteria.min_coverage
             THEN << [type |-> "insufficient_coverage",
                      actual |-> metrics.canvas_coverage_accurate,
                      required |-> criteria.min_coverage] >>
             ELSE << >>)
            \o
            (IF lowAccuracy
             THEN << [type |-> "incorrect_spatial_placement",
                      actual |-> 0, required |-> 0] >>
             ELSE << >>),
          planning_errors |->
            IF criteria.has_segments /\ metrics.drawing_segments < criteria.min_segments
            THEN << [type |-> "insufficient_segments",
                     actual |-> metrics.drawing_segments,
                     required |-> criteria.min_segments] >>
            ELSE << >>,
          syntax_errors |-> results.errors ]

(***************************************************************************)
(* evaluate.  An input is [kind, items]: kind "list" for a list, anything  *)
(* else for a value that is not a list (items then stands for its          *)
(* content).                                                               *)
(***************************************************************************)
(***************************************************************************)
(* generate_feedback.  The report is the list of entries that the code     *)
(* joins with newlines; an entry is kept as its kind and the values it     *)
(* interpolates.                                                           *)
(***************************************************************************)
Line(kind, key, text, n) == [kind |-> kind, key |-> key, text |-> text, n |-> n]

MaxErrorsShown == 5
MaxWarningsShown == 3

FirstOf(s, n) == SubSeq(s, 1, Min(n, Len(s)))

ShownErrorsAll(errors) == errors

(* evaluation_results["errors"][:5] *)
ShownErrors(errors) == FirstOf(errors, MaxErrorsShown)

(* evaluation_results["warnings"][:3] *)
ShownWarnings(warnings) == FirstOf(warnings, MaxWarningsShown)

(* The thousandths k for which the double nearest to k / 1000 lies above   *)
(* k / 1000 or, when k / 1000 is a double, for which the hundredth above   *)
(* is the even one: f"{k / 1000:.2f}" shows the hundredth above.           *)
TiesShownUp ==
    { 5, 25, 35, 55, 65, 85, 95, 115, 135, 165, 195, 225, 255, 265, 275, 315,
      325, 335, 375, 385, 395, 405, 445, 455, 465, 505, 515, 525, 535, 545,
      555, 635, 645, 655, 665, 675, 685, 755, 765, 775, 785, 795, 805, 875,
      885, 895, 905, 915, 925, 935 }

(* f"{score:.2f}", in hundredths. *)
FormatScore(score) ==
    IF score % 10 = 5
    THEN (IF score \in TiesShownUp THEN score \div 10 + 1 ELSE score \div 10)
    ELSE RoundDiv(score, 10)

(* The entries of the CRITERIA section: one per key of criteria_met, in    *)
(* the order the keys were set, PASS for a truthy value (a non-zero        *)
(* number, a non-empty list).                                              *)
CriteriaLines(criteria_met) ==
    LET tool_keys == Dedupe(criteria_met.tool_order)
        tool(i) == tool_keys[(i + 2) \div 3]
        toolLine(i) ==
            IF i % 3 = 1 THEN Line("criterion", "tool_used", tool(i),
                                   IF criteria_met.tools[tool(i)].used THEN 1 ELSE 0)
            ELSE IF i % 3 = 2 THEN Line("criterion", "tool_selected", tool(i),
                                   IF criteria_met.tools[tool(i)].selected THEN 1 ELSE 0)
            ELSE Line("criterion", "tool_actually_used", tool(i),
                                   IF criteria_met.tools[tool(i)].actually_used THEN 1 ELSE 0)
        flag(key, value) == Line("criterion", key, "", IF value THEN 1 ELSE 0)
    IN  [i \in 1..(3 * Len(tool_keys)) |-> toolLine(i)]
        \o (IF criteria_met.has_segments
            THEN << flag("min_segments_met", criteria_met.min_segments_met),
                    flag("actual_segments", criteria_met.actual_segments # 0) >>
            ELSE << >>)
        \o (IF criteria_met.has_colors
            THEN << flag("colors_changed", criteria_met.colors_changed # 0),
                    flag("min_colors_met", criteria_met.min_colors_met),
                    flag("colors_exact_used", criteria_met.colors_exact_used # {}),
                    flag("colors_matched", criteria_met.colors_matched # 0),
                    flag("colors_missing", criteria_met.colors_missing # {}),
                    flag("min_colors_exact_met", criteria_met.min_colors_exact_met) >>
            ELSE << >>)
        \o (IF criteria_met.has_coverage
            THEN << flag("canvas_coverage", criteria_met.canvas_coverage # 0),
                    flag("min_coverage_met", criteria_met.min_coverage_met),
                    flag("canvas_coverage_accurate",
                         criteria_met.canvas_coverage_accurate # 0),
                    flag("min_coverage_accurate_met",
                         criteria_met.min_coverage_accurate_met) >>
            ELSE << >>)

GenerateFeedback(results) ==
    LET shownErrors == ShownErrors(results.errors)
        shownWarnings == ShownWarnings(results.warnings)
    IN  (IF results.errors # << >>
         THEN << Line("header", "ERRORS FOUND:", "", 0) >>
              \o [i \in 1..Len(shownErrors) |->
                     Line("error", shownErrors[i].type, shownErrors[i].message,
                          shownErrors[i].index)]
         ELSE << >>)
        \o (IF results.warnings # << >>
            THEN << Line("header", "WARNINGS:", "", 0) >>
                 \o [i \in 1..Len(shownWarnings) |->
                        Line("warning", shownWarnings[i].type, shownWarnings[i].message,
                             shownWarnings[i].a)]
            ELSE << >>)
        \o << Line("header", "METRICS:", "", 0),
               Line("metric", "Total actions", "", results.total_actions),
               Line("metric", "Tool changes", "", results.metrics.tool_changes),
               Line("metric", "Color changes", "", results.metrics.color_changes),
               Line("metric", "Drawing segments", "", results.metrics.drawing_segments),
               Line("metric", "Canvas coverage", "%", results.metrics.canvas_coverage) >>
        \o (IF results.has_criteria_met
            THEN << Line("header", "CRITERIA:", "", 0) >>
                 \o CriteriaLines(results.criteria_met)
            ELSE << >>)
        \o << Line("score", "OVERALL SCORE", "/1.00", FormatScore(results.score)) >>

IsListOrTuple(input) == input.kind \in {"list", "tuple"}

IsList(input) == input.kind = "list"

EvaluateRaises(self, actions, criteria, region) ==
    \/ CountActionsRaises(actions)
    \/ CountToolChanges(self, actions).raised
    \/ CountColorChanges(actions).raised
    \/ EstimateCanvasCoverage(self, actions).raised
    \/ EstimateCanvasCoverageAccurate(self, actions).raised
    \/ DetectExactColorsUsed(self, actions).raised
    \/ region # "" /\ EvaluateSpatialAccuracy(self, actions, region).raised
    \/ Truthy(criteria) /\ CheckCriteriaRaises(self, actions, criteria)

EvaluateMetrics(self, actions, criteria, region) ==
    [ tool_changes |-> CountToolChanges(self, actions).value,
      color_changes |-> CountColorChanges(actions).value,
      drawing_segments |-> CountDrawingSegments(actions),
      canvas_coverage |-> EstimateCanvasCoverage(self, actions).value,
      canvas_coverage_accurate |-> EstimateCanvasCoverageAccurate(self, actions).value,
      exact_colors_used |-> DetectExactColorsUsed(self, actions).value,
      has_spatial |-> TRUE,
      spatial_accuracy |->
        IF region # "" THEN EvaluateSpatialAccuracy(self, actions, region).value
        ELSE NullAccuracy,
      spatial_constraints |-> region,
      has_efficiency |-> TRUE,
      action_efficiency |->
        IF Truthy(criteria) THEN CalculateActionEfficiency(actions, criteria)
        ELSE NoNumber ]

(* The errors list after the two extend calls of evaluate: the syntax pass *)
(* first, the coordinate pass after it.                                    *)
ValidatorErrorsCoordinateFirst(self, actions) ==
    CheckCoordinateErrors(self, actions) \o CheckSyntaxErrors(actions)

ValidatorErrors(self, actions) ==
    CheckSyntaxErrors(actions) \o CheckCoordinateErrors(self, actions)

EvaluateList(self, actions, criteria) ==
    LET truthy == Truthy(criteria)
        region == IF truthy /\ criteria.has_prompt
                  THEN ExtractSpatialConstraints(criteria.prompt) ELSE ""
        analysed ==
            [BlankResult EXCEPT
                !.status = "ok",
                !.total_actions = Len(actions),
                !.has_breakdown = TRUE,
                !.action_breakdown = CountActions(actions),
                !.errors = ValidatorErrors(self, actions),
                !.warnings = CheckEfficiencyWarnings(actions),
                !.metrics = EvaluateMetrics(self, actions, criteria, region),
                !.has_criteria_met = truthy,
                !.criteria_met = IF truthy THEN CheckCriteria(self, actions, criteria)
                                 ELSE NoCriteriaMet,
                !.has_colors_required = truthy /\ criteria.has_colors,
                !.colors_required = IF truthy /\ criteria.has_colors
                                    THEN Len(criteria.required_colors) ELSE 0,
                !.has_min_coverage = truthy /\ criteria.has_coverage,
                !.min_coverage = IF truthy /\ criteria.has_coverage
                                 THEN criteria.min_coverage ELSE 0]
        scored == [analysed EXCEPT !.score = CalculateScore(analysed)]
    IN  IF EvaluateRaises(self, actions, criteria, region) THEN RaisedResult
        ELSE [scored EXCEPT
                !.has_classification = TRUE,
                !.error_classification =
                    IF truthy THEN ClassifyErrors(self, scored, criteria)
                    ELSE NoClassification]

EvaluateResult(self, input, criteria) ==
    IF ~IsList(input) THEN DegenerateResult
    ELSE EvaluateList(self, input.items, criteria)

EvaluatorConsumingColors(self) == [self EXCEPT !.color_positions = << >>]

(* evaluate assigns to no field of the evaluator: the fields after a call. *)
EvaluatorAfterEvaluate(self) == self

(***************************************************************************)
(* Inputs.  The entries a log of the general family is built from: button  *)
(* and swatch hits, canvas points, the edges of the screen and points      *)
(* beyond them, and malformed entries.                                     *)
(***************************************************************************)
GeneralActions ==
    { At("moveTo", 245, 25), At("moveTo", 345, 25), At("moveTo", 453, 25),
      Bare("click"), At("click", 345, 25),
      At("moveTo", 590, 420),
      At("moveTo", 1500, 900), At("moveTo", 1501, 25), At("click", 445, -1),
      Bare("mouseDown"), At("mouseDown", 590, 420), At("mouseDown", 1501, 901),
      Bare("mouseUp"),
      Bare("scroll"), Bare(""), NotADict,
      Act("moveTo", "num", 345, "abs", 0),
      Act("moveTo", "str", 0, "num", 25),
      Act("click", "num", 245, "str", 0),
      Act("mouseUp", "str", 0, "str", 0) }

(* The entries of the drawing family of a region: one or two points of the *)
(* region (corners and edges of the canvas among them), a point of the     *)
(* screen outside the canvas, and the button events.                       *)
RegionPoints(region) ==
    IF region = "top-left" THEN { <<90, 70>>, <<300, 200>> }
    ELSE IF region = "top" THEN { <<590, 80>> }
    ELSE IF region = "top-right" THEN { <<1089, 70>> }
    ELSE IF region = "left" THEN { <<100, 420>> }
    ELSE IF region = "center" THEN { <<590, 420>>, <<700, 500>> }
    ELSE IF region = "right" THEN { <<1000, 500>>, <<1090, 420>> }
    ELSE IF region = "bottom-left" THEN { <<90, 769>> }
    ELSE IF region = "bottom" THEN { <<500, 600>>, <<590, 770>> }
    ELSE { <<1089, 769>> }

RegionActions(region) ==
    {At("moveTo", q[1], q[2]) : q \in RegionPoints(region)}
        \cup {At("moveTo", 50, 50), Bare("mouseDown"), Bare("mouseUp")}

SeqsUpTo(S, n) == UNION {[1..m -> S] : m \in 0..n}

(* The scenario of the __main__ block. *)
ExampleActions ==
    << At("moveTo", 453, 25), Bare("click"), At("moveTo", 245, 25), Bare("click"),
       At("moveTo", 590, 420), Bare("mouseDown"), At("moveTo", 640, 420),
       At("moveTo", 665, 445), At("moveTo", 665, 495), Bare("mouseUp") >>

(* A log both validator passes report on: an unknown action type, a point  *)
(* off the screen, and coordinates that are not numbers.                   *)
MixedErrorsLog ==
    << Bare("scroll"), At("moveTo", 1501, 25), Act("mouseUp", "str", 0, "str", 0) >>

ExampleCriteria ==
    [ present |-> TRUE,
      has_tools |-> TRUE, required_tools |-> << "pen" >>,
      has_colors |-> TRUE, required_colors |-> << "#FF0000" >>,
      has_segments |-> TRUE, min_segments |-> 1,
      has_coverage |-> TRUE, min_coverage |-> 100,
      has_prompt |-> FALSE, prompt |-> {} ]

(* Criteria nothing in the general family meets in full. *)
HarshCriteria ==
    [ present |-> TRUE,
      has_tools |-> TRUE, required_tools |-> << "pen", "rectangle", "stamp", "pen" >>,
      has_colors |-> TRUE, required_colors |-> << "#FF0000", "#000000", "#FF0000" >>,
      has_segments |-> TRUE, min_segments |-> 2,
      has_coverage |-> TRUE, min_coverage |-> 5000,
      has_prompt |-> TRUE, prompt |-> {"center"} ]

(* The keywords a prompt that names exactly one region contains. *)
PromptNaming(region) ==
    IF region = "top-left" THEN {"top-left", "top", "left"}
    ELSE IF region = "top-right" THEN {"top-right", "top", "right"}
    ELSE IF region = "bottom-left" THEN {"bottom-left", "bottom", "left"}
    ELSE IF region = "bottom-right" THEN {"bottom-right", "bottom", "right"}
    ELSE {region}

RegionCriteria(region) ==
    [NoCriteria EXCEPT !.present = TRUE, !.has_prompt = TRUE,
                       !.prompt = PromptNaming(region)]

GeneralCriteria == {NoCriteria, EmptyCriteria, ExampleCriteria, HarshCriteria}

ListInput(items) == [kind |-> "list", items |-> items]

NonListKinds == {"dict", "str", "null", "tuple"}

(* The entries of the stroke family: strokes, a switch to the rectangle   *)
(* tool in the middle of one, and button events with and without a point.  *)
StrokeActions ==
    { At("mouseDown", 590, 420), Bare("mouseDown"), At("mouseUp", 1090, 770),
      At("moveTo", 100, 80), At("moveTo", 345, 25), Bare("click") }

(* What the caller may insert into a log: actions carrying a canvas point. *)
InsertedActions ==
    { At("moveTo", 590, 420), At("mouseUp", 590, 420),
      At("mouseDown", 140, 105), At("click", 140, 105) }

InsertAt(items, k, a) == SubSeq(items, 1, k) \o << a >> \o SubSeq(items, k + 1, Len(items))

NoEdit == [done |-> FALSE, at |-> 0, action |-> Bare("")]

(***************************************************************************)
(* The state: the evaluator, the caller's actions and criteria, the number *)
(* of evaluate calls made on them, the result of the last call and the one *)
(* before it, and, once the caller has inserted an action into the log,    *)
(* the insertion and the result for the log before it.                     *)
(***************************************************************************)
VARIABLES self, actions, criteria, calls, result, previous, edit, original,
          threads, feedback

vars == <<self, actions, criteria, calls, result, previous, edit, original,
          threads, feedback>>

(* No report has been generated. *)
NoFeedback == [done |-> FALSE, report |-> << >>]

(* No concurrent call is under way. *)
NoThreads == << >>

Init ==
    /\ self = NewEvaluator
    /\ \/ /\ actions \in {ListInput(l) : l \in SeqsUpTo(GeneralActions, MaxLen)}
          /\ criteria \in GeneralCriteria
       \/ \E r \in Regions :
             /\ actions \in {ListInput(l) : l \in SeqsUpTo(RegionActions(r), MaxDrawLen)}
             /\ criteria = RegionCriteria(r)
       \/ /\ actions \in {ListInput(l) : l \in SeqsUpTo(StrokeActions, MaxStrokeLen)}
          /\ criteria = NoCriteria
       \/ /\ actions \in {ListInput(ExampleActions), ListInput(MixedErrorsLog)}
          /\ criteria \in GeneralCriteria \cup {RegionCriteria("center")}
       \/ /\ actions \in [kind : NonListKinds, items : SeqsUpTo(GeneralActions, 1)]
          /\ criteria \in GeneralCriteria
    /\ calls = "none"
    /\ result = BlankResult
    /\ previous = BlankResult
    /\ edit = NoEdit
    /\ original = BlankResult
    /\ threads = NoThreads
    /\ feedback = NoFeedback

(* A call of evaluate(actions, criteria=criteria); the caller evaluates a  *)
(* log up to twice, and the log it has extended once.                      *)
Evaluate ==
    /\ calls = "none" \/ (calls = "once" /\ ~edit.done)
    /\ calls' = IF calls = "none" THEN "once" ELSE "twice"
    /\ previous' = result
    /\ result' = EvaluateResult(self, actions, criteria)
    /\ self' = EvaluatorAfterEvaluate(self)
    /\ UNCHANGED <<actions, criteria, edit, original, threads, feedback>>

(* The segment a mouseDown opened with the pen as current tool is still    *)
(* open after the first k actions.                                         *)
OpenPenSegmentAfter(items, k) ==
    \E d \in 1..k :
        /\ GetAction(items[d]) = "mouseDown"
        /\ AccurateFold(self, items, d).current_tool = "pen"
        /\ \A q \in (d + 1)..k : GetAction(items[q]) # "mouseUp"

(* The caller inserts one more action into an open pen segment of a log    *)
(* that has been evaluated, and will evaluate the longer log.              *)
InsertPoint ==
    /\ calls = "once"
    /\ ~edit.done
    /\ IsList(actions)
    /\ criteria = NoCriteria
    /\ result.status = "ok"
    /\ \E k \in 1..Len(actions.items), a \in InsertedActions :
          /\ OpenPenSegmentAfter(actions.items, k)
          /\ actions' = ListInput(InsertAt(actions.items, k, a))
          /\ edit' = [done |-> TRUE, at |-> k, action |-> a]
    /\ original' = result
    /\ calls' = "none"
    /\ UNCHANGED <<self, criteria, result, previous, threads, feedback>>

Next == Evaluate \/ InsertPoint

Spec == Init /\ [][Next]_vars

(***************************************************************************)
(* Concurrent calls of evaluate on one shared evaluator.  Each call has    *)
(* its own arguments and its own locals; the loop of the accurate coverage *)
(* pass of evaluate is interleaved one iteration at a time, the other      *)
(* passes run when the call returns.                                       *)
(***************************************************************************)
Callers == {1, 2}

ConcurrentActions ==
    { At("mouseDown", 590, 420), At("moveTo", 100, 80), Bare("mouseUp") }

ConcurrentInputs ==
    {ListInput(l) : l \in SeqsUpTo(ConcurrentActions, MaxConcurrentLen)}
        \cup {[kind |-> "tuple", items |-> << At("mouseDown", 590, 420) >>]}

IdleCall(input, c) ==
    [ pc |-> "idle", input |-> input, criteria |-> c, i |-> 0,
      scratch |-> DrawingState0, out |-> BlankResult ]

ScratchWriteShared(calling, t, s) ==
    [u \in DOMAIN calling |-> [calling[u] EXCEPT !.scratch = s]]

(* grid, is_drawing, current_tool, mouse_down_pos and last_pos are locals  *)
(* of the call: an assignment reaches the caller's own scratch only.       *)
ScratchWrite(calling, t, s) == [calling EXCEPT ![t].scratch = s]

(* What the call returns: the metric of its own coverage loop, and the     *)
(* rest from the other passes.                                             *)
CallResult(rest, th) ==
    IF ~IsList(th.input) THEN rest
    ELSE IF th.scratch.raised \/ rest.status # "ok" THEN RaisedResult
    ELSE [rest EXCEPT !.metrics.canvas_coverage_accurate =
             RoundDiv(Cardinality(th.scratch.grid) * CovUnit, GridSize * GridSize)]

InitConcurrent ==
    /\ self = NewEvaluator
    /\ \E c \in {NoCriteria, ExampleCriteria} :
          threads \in [Callers -> {IdleCall(input, c) : input \in ConcurrentInputs}]
    /\ actions = ListInput(<< >>)
    /\ criteria = NoCriteria
    /\ calls = "none"
    /\ result = BlankResult
    /\ previous = BlankResult
    /\ edit = NoEdit
    /\ original = BlankResult
    /\ feedback = NoFeedback

(* evaluate is entered: the scratch of the coverage pass is allocated. *)
Enter(t) ==
    /\ threads[t].pc = "idle"
    /\ threads' = ScratchWrite([threads EXCEPT ![t].pc = "running"], t, DrawingState0)
    /\ UNCHANGED <<self, actions, criteria, calls, result, previous, edit, original,
                       feedback>>

(* One iteration of the loop of _estimate_canvas_coverage_accurate. *)
Iterate(t) ==
    LET th == threads[t]
    IN  /\ th.pc = "running"
        /\ IsList(th.input)
        /\ th.i < Len(th.input.items)
        /\ threads' = ScratchWrite([threads EXCEPT ![t].i = th.i + 1], t,
                                   AccurateStep(self, th.scratch, th.input.items, th.i + 1))
        /\ UNCHANGED <<self, actions, criteria, calls, result, previous, edit, original,
                       feedback>>

(* The call returns; the other passes have run on the evaluator as it is  *)
(* by then.                                                                *)
Return(t) ==
    LET th == threads[t]
    IN  /\ th.pc = "running"
        /\ IsList(th.input) => th.i = Len(th.input.items)
        /\ \E rest \in {EvaluateResult(self, th.input, th.criteria)} :
              threads' = [threads EXCEPT ![t].pc = "returned",
                                         ![t].out = CallResult(rest, th)]
        /\ self' = EvaluatorAfterEvaluate(self)
        /\ UNCHANGED <<actions, criteria, calls, result, previous, edit, original,
                       feedback>>

NextConcurrent == \E t \in Callers : Enter(t) \/ Iterate(t) \/ Return(t)

SpecConcurrent == InitConcurrent /\ [][NextConcurrent]_vars

(***************************************************************************)
(* Properties.                                                             *)
(***************************************************************************)
Returned == calls # "none" /\ result.status = "ok"
ReturnedList == Returned /\ actions.kind = "list"

(* C1: whatever the actions and the criteria, a score that evaluate        *)
(* returns lies in [0, 1], whatever penalties and bonus were applied.      *)
C1_ScoreInUnitInterval ==
    Returned => 0 <= result.score /\ result.score <= FullScore

(* The scenario log, no penalty but one warning, and the bonus: 1.03       *)
(* before the clamp.                                                       *)
C1_Witness ==
    /\ Returned
    /\ result.total_actions >= BonusMinActions
    /\ ~result.has_criteria_met
    /\ Len(result.errors) = 0 /\ Len(result.warnings) = 1
    /\ result.score = FullScore

(* C2: evaluate returns a result for every list, with a diagnostic for     *)
(* each malformed entry (not a mapping, no action field, unknown action    *)
(* type, moveTo without coordinates, non-numeric x or y): no exception     *)
(* escapes.                                                                *)
MalformedEntry(a) ==
    \/ a.kind # "dict"
    \/ a.action \notin ValidActions
    \/ a.action = "moveTo" /\ ~HasXY(a)
    \/ a.xk = "str" \/ a.yk = "str"

Diagnosed(errors, i) == \E e \in 1..Len(errors) : errors[e].index = i

C2_NeverFailsOnContent ==
    (calls # "none" /\ actions.kind = "list") =>
        /\ result.status = "ok"
        /\ \A p \in 1..Len(actions.items) :
              MalformedEntry(actions.items[p]) => Diagnosed(result.errors, p - 1)

(* C3: for an input that is not a list, whatever its content and the       *)
(* criteria, evaluate returns score 0.0, exactly one error, of type        *)
(* SYNTAX_ERROR, no warning and total_actions 0, and nothing a validator,  *)
(* analyzer, scorer or classifier step produces.                           *)
C3_NonListDegenerate ==
    (calls # "none" /\ actions.kind # "list") =>
        /\ result.status = "ok"
        /\ result.score = 0
        /\ Len(result.errors) = 1
        /\ result.errors[1].type = "SYNTAX_ERROR"
        /\ result.warnings = << >>
        /\ result.total_actions = 0
        /\ result.metrics = BlankMetrics
        /\ ~result.has_breakdown
        /\ ~result.has_criteria_met
        /\ ~result.has_classification

C3_Witness ==
    /\ calls = "once"
    /\ actions.kind = "tuple"
    /\ actions.items = << At("mouseDown", 1501, 901) >>
    /\ criteria = HarshCriteria
    /\ result.score = 0

(* C4: the empty list without criteria gives no error, no warning, every   *)
(* count 0, no segment, both coverages 0 and the score 1.0.                *)
C4_EmptyListNoCriteria ==
    (calls # "none" /\ actions = ListInput(<< >>) /\ ~Truthy(criteria)) =>
        /\ result.status = "ok"
        /\ result.errors = << >>
        /\ result.warnings = << >>
        /\ result.has_breakdown
        /\ result.action_breakdown = NoBreakdown
        /\ result.metrics.drawing_segments = 0
        /\ result.metrics.canvas_coverage = 0
        /\ result.metrics.canvas_coverage_accurate = 0
        /\ result.score = FullScore

C4_Witness ==
    /\ calls = "once"
    /\ actions = ListInput(<< >>)
    /\ criteria = NoCriteria
    /\ result.score = FullScore

Compared ==
    /\ edit.done /\ calls # "none"
    /\ result.status = "ok" /\ original.status = "ok"

Log == actions.items
LogBefore == SubSeq(Log, 1, edit.at) \o SubSeq(Log, edit.at + 2, Len(Log))

(* C6 as stated: an action carrying an in-canvas point, inserted into an   *)
(* open pen segment of any log, never lowers canvas_coverage_accurate.     *)
C6_AnyInsertionMonotone ==
    Compared =>
        result.metrics.canvas_coverage_accurate
            >= original.metrics.canvas_coverage_accurate

PenThroughout(items) ==
    \A p \in 0..Len(items) : AccurateFold(self, items, p).current_tool \in PenTools

(* C6, amended: an action other than mouseUp carrying an in-canvas point,  *)
(* inserted into an open pen segment of a log in which the current tool is *)
(* pen or eraser at every step, before and after the insertion, never      *)
(* lowers canvas_coverage_accurate.                                        *)
C6_PenInsertionMonotone ==
    ( /\ Compared
      /\ GetAction(edit.action) # "mouseUp"
      /\ PenThroughout(Log) /\ PenThroughout(LogBefore) ) =>
        result.metrics.canvas_coverage_accurate
            >= original.metrics.canvas_coverage_accurate

(* A click in a cell the stroke had not reached raises the coverage; the   *)
(* stroke goes on after it.                                                *)
C6_Witness ==
    /\ Compared
    /\ GetAction(edit.action) = "click"
    /\ PenThroughout(Log) /\ PenThroughout(LogBefore)
    /\ edit.at < Len(LogBefore)
    /\ original.metrics.canvas_coverage_accurate > 0
    /\ result.metrics.canvas_coverage_accurate
          > original.metrics.canvas_coverage_accurate

(* The region of the 3x3 partition a point of the closed canvas rectangle  *)
(* lies in.                                                                *)
InCanvas(a) ==
    /\ a.kind = "dict" /\ NumXY(a)
    /\ self.canvas_offset_x <= a.x /\ a.x <= self.canvas_offset_x + self.canvas_width
    /\ self.canvas_offset_y <= a.y /\ a.y <= self.canvas_offset_y + self.canvas_height

RegionOf(a) ==
    LET col == Min(2, (3 * (a.x - self.canvas_offset_x)) \div self.canvas_width)
        row == Min(2, (3 * (a.y - self.canvas_offset_y)) \div self.canvas_height)
    IN  << <<"top-left", "top", "top-right">>,
           <<"left", "center", "right">>,
           <<"bottom-left", "bottom", "bottom-right">> >>[row + 1][col + 1]

Confined(region) ==
    /\ Returned /\ actions.kind = "list"
    /\ criteria = RegionCriteria(region)
    /\ \A p \in 1..Len(Log) : InCanvas(Log[p]) => RegionOf(Log[p]) = region

(* C7 as stated: when every in-canvas point of the log lies in the region  *)
(* the prompt names, spatial_accuracy is at least 0.99.                    *)
C7_ConfinedAtLeast99 ==
    \A region \in Regions :
        Confined(region) =>
            /\ result.metrics.spatial_accuracy.k # "null"
            /\ AccuracyAtLeastPct(self, result.metrics.spatial_accuracy, 99)

HasDrawingPoint(items) == CalculateDrawingCentroid(self, items).value.n > 0

(* C7, amended: when every in-canvas point of the log lies in the region   *)
(* the prompt names and the log has a drawing point (a mouseDown after a   *)
(* moveTo to a canvas point), spatial_accuracy is at least 0.83: a point   *)
(* of a region is up to a sixth of the diagonal away from its centre.      *)
C7_ConfinedAtLeast83 ==
    \A region \in Regions :
        (Confined(region) /\ HasDrawingPoint(Log)) =>
            /\ result.metrics.spatial_accuracy.k = "val"
            /\ AccuracyAtLeastPct(self, result.metrics.spatial_accuracy, 83)

(* Two strokes that start at different points of the top-left region, one  *)
(* of them the corner of the canvas: below 0.99.                           *)
C7_Witness ==
    /\ Confined("top-left")
    /\ Log = << At("moveTo", 90, 70), Bare("mouseDown"),
                At("moveTo", 300, 200), Bare("mouseDown") >>
    /\ result.metrics.spatial_accuracy.k = "val"
    /\ result.metrics.spatial_accuracy.n = 2
    /\ AccuracyAtLeastPct(self, result.metrics.spatial_accuracy, 83)
    /\ ~AccuracyAtLeastPct(self, result.metrics.spatial_accuracy, 99)

ScreenErrorAt(errors, i) ==
    \E e \in 1..Len(errors) :
        /\ errors[e].type = "COORDINATE_ERROR"
        /\ errors[e].index = i
        /\ errors[e].message = "Coordinates out of screen bounds"

(* C8: an action with numeric x and y gets a screen-bounds                 *)
(* COORDINATE_ERROR at its index exactly when x < 0 or x > 1500 or y < 0   *)
(* or y > 900: the edges x = 1500 and y = 900 are inside.                  *)
C8_ScreenBoundsInclusive ==
    ReturnedList =>
        \A p \in 1..Len(Log) :
            NumXY(Log[p]) =>
                (ScreenErrorAt(result.errors, p - 1)
                    <=> (Log[p].x < 0 \/ Log[p].x > 1500
                           \/ Log[p].y < 0 \/ Log[p].y > 900))

C8_Witness ==
    /\ ReturnedList
    /\ Log = << At("moveTo", 1500, 900), At("moveTo", 1501, 25) >>
    /\ ~ScreenErrorAt(result.errors, 0)
    /\ ScreenErrorAt(result.errors, 1)

LogicErrors(warnings) ==
    {w \in 1..Len(warnings) : warnings[w].type = "LOGIC_ERROR"}

Occurrences(items, type) ==
    Cardinality({p \in 1..Len(items) : items[p].action = type})

(* C9: the warnings hold exactly one LOGIC_ERROR, naming the number of     *)
(* mouseDown and the number of mouseUp, when the two numbers differ, and   *)
(* none when they are equal.                                               *)
C9_OneLogicErrorIffUnmatched ==
    ReturnedList =>
        LET down == Occurrences(Log, "mouseDown")
            up   == Occurrences(Log, "mouseUp")
            logic == LogicErrors(result.warnings)
        IN  IF down # up
            THEN \E w \in logic :
                    /\ logic = {w}
                    /\ result.warnings[w].a = down
                    /\ result.warnings[w].b = up
            ELSE logic = {}

C9_Witness ==
    /\ ReturnedList
    /\ Occurrences(Log, "mouseDown") = 1
    /\ Occurrences(Log, "mouseUp") = 2
    /\ Cardinality(LogicErrors(result.warnings)) = 1

(* A mouseDown at d opens a segment: every mouseDown before it has been    *)
(* followed by a mouseUp before d.                                         *)
OpensSegment(items, d) ==
    /\ items[d].action = "mouseDown"
    /\ \A q \in 1..(d - 1) :
          items[q].action = "mouseDown" =>
              \E u \in (q + 1)..(d - 1) : items[u].action = "mouseUp"

(* C10: drawing_segments is the number of mouseDown met while no segment   *)
(* is open (a mouseDown in an open segment and a mouseUp without one       *)
(* change nothing, an unclosed segment counts); the reference scenario     *)
(* gives 1.                                                                *)
C10_SegmentsAreOpens ==
    ReturnedList =>
        /\ result.metrics.drawing_segments
              = Cardinality({d \in 1..Len(Log) : OpensSegment(Log, d)})
        /\ Log = ExampleActions => result.metrics.drawing_segments = 1

(* mouseUp, mouseDown, mouseDown, mouseUp: one segment. *)
C10_Witness ==
    /\ ReturnedList
    /\ Len(Log) = 4
    /\ Log[1].action = "mouseUp" /\ Log[2].action = "mouseDown"
    /\ Log[3].action = "mouseDown" /\ Log[4].action = "mouseUp"
    /\ result.metrics.drawing_segments = 1

(***************************************************************************)
(* Reports: generate_feedback on what evaluate returned, for logs with up  *)
(* to two errors per action and inputs that are not lists.                 *)
(***************************************************************************)
FeedbackActions ==
    { At("mouseDown", 1501, 901), Bare("scroll"), At("moveTo", 590, 420),
      Bare("mouseUp") }

InitFeedback ==
    /\ self = NewEvaluator
    /\ \/ actions \in {ListInput(l) : l \in SeqsUpTo(FeedbackActions, MaxFeedbackLen)}
       \/ actions \in [kind : NonListKinds, items : SeqsUpTo(FeedbackActions, 1)]
    /\ criteria \in {NoCriteria, ExampleCriteria, HarshCriteria}
    /\ calls = "none"
    /\ result = BlankResult
    /\ previous = BlankResult
    /\ edit = NoEdit
    /\ original = BlankResult
    /\ threads = NoThreads
    /\ feedback = NoFeedback

(* generate_feedback(result) on the result of the last call. *)
Feedback ==
    /\ calls # "none"
    /\ result.status = "ok"
    /\ ~feedback.done
    /\ feedback' = [done |-> TRUE, report |-> GenerateFeedback(result)]
    /\ UNCHANGED <<self, actions, criteria, calls, result, previous, edit, original,
                   threads>>

NextFeedback == Evaluate \/ Feedback

SpecFeedback == InitFeedback /\ [][NextFeedback]_vars

(* The entries of a kind, in the order of the report. *)
LinesOf(report, kind) == SelectSeq(report, LAMBDA l : l.kind = kind)

(* C12: the report of a returned result lists the first 5 errors at most   *)
(* and the first 3 warnings at most, in their order, and ends with the     *)
(* one OVERALL SCORE line, which shows the score to two decimals.          *)
C12_FeedbackShape ==
    feedback.done =>
        LET report == feedback.report
            errorLines == LinesOf(report, "error")
            warningLines == LinesOf(report, "warning")
            last == report[Len(report)]
        IN  /\ Len(errorLines) = IF Len(result.errors) < 5 THEN Len(result.errors) ELSE 5
            /\ \A i \in 1..Len(errorLines) :
                  /\ errorLines[i].key = result.errors[i].type
                  /\ errorLines[i].text = result.errors[i].message
                  /\ errorLines[i].n = result.errors[i].index
            /\ Len(warningLines)
                  = IF Len(result.warnings) < 3 THEN Len(result.warnings) ELSE 3
            /\ \A i \in 1..Len(warningLines) :
                  /\ warningLines[i].key = result.warnings[i].type
                  /\ warningLines[i].text = result.warnings[i].message
            /\ last.kind = "score"
            /\ Len(LinesOf(report, "score")) = 1
            /\ 10 * last.n - result.score <= 5
            /\ result.score - 10 * last.n <= 5

(* Three mouseDown beyond the screen: six errors, one warning, criteria. *)
C12_Witness ==
    /\ feedback.done
    /\ Len(result.errors) = 6
    /\ Len(result.warnings) = 1
    /\ result.has_criteria_met
    /\ Len(LinesOf(feedback.report, "error")) = 5

(* C11: evaluate writes to no field of the shared evaluator, so whatever   *)
(* the interleaving of concurrent calls, each call that has returned       *)
(* returned what it returns when run alone, and the evaluator is as        *)
(* constructed.                                                            *)
C11_ConcurrentCallsAsAlone ==
    /\ self = NewEvaluator
    /\ \A t \in DOMAIN threads :
          threads[t].pc = "returned" =>
              threads[t].out
                 = EvaluateResult(NewEvaluator, threads[t].input, threads[t].criteria)

(* Caller 2 returned a result with marked cells while caller 1, whose log  *)
(* differs, was in the middle of its loop with the button down.            *)
C11_Witness ==
    /\ DOMAIN threads = Callers
    /\ threads[1].pc = "running" /\ threads[1].i = 1
    /\ threads[1].scratch.is_drawing
    /\ threads[2].pc = "returned"
    /\ threads[2].input # threads[1].input
    /\ threads[2].out.status = "ok"
    /\ threads[2].out.metrics.canvas_coverage_accurate > 0
    /\ threads[2].criteria = ExampleCriteria


(***************************************************************************)
(* Logs that work the toolbar: tool buttons and colour swatches, reached   *)
(* by a moveTo and a click or by a click that carries coordinates, and the *)
(* mouseDown that starts drawing.                                          *)
(***************************************************************************)
ToolbarActions ==
    { At("moveTo", 245, 25), Bare("click"), At("click", 345, 25),
      Bare("mouseDown"), At("moveTo", 453, 25), At("click", 429, 25) }

(* Criteria that require tools and nothing else. *)
ToolCriteria(tools) ==
    [NoCriteria EXCEPT !.present = TRUE, !.has_tools = TRUE, !.required_tools = tools]

RequiredToolLists ==
    { << "pen" >>, << "rectangle", "pen", "rectangle" >>, << "stamp" >>,
      << "tool_x" >>, << "pen_actually", "eraser" >>, << "pen_actually", "pen" >> }

ToolbarCriteria == {NoCriteria} \cup {ToolCriteria(tools) : tools \in RequiredToolLists}

InitToolbar ==
    /\ self = NewEvaluator
    /\ actions \in {ListInput(l) : l \in SeqsUpTo(ToolbarActions, MaxToolbarLen)}
    /\ criteria \in ToolbarCriteria
    /\ calls = "none"
    /\ result = BlankResult
    /\ previous = BlankResult
    /\ edit = NoEdit
    /\ original = BlankResult
    /\ threads = NoThreads
    /\ feedback = NoFeedback

NextToolbar == Evaluate

SpecToolbar == InitToolbar /\ [][NextToolbar]_vars

(* The required tools whose strict check is false. *)
FailedTools(items, tools) ==
    {tool \in SeqRange(tools) : ~VerifyToolActuallyUsed(self, items, tool).value.used}

(* C13: when the criteria require tools and nothing else, the score is the *)
(* full score less 0.15 for each distinct required tool whose strict check *)
(* is false, less the error and warning penalties: no required tool is     *)
(* penalised twice.                                                        *)
C13_OncePerFailedTool ==
    (/\ calls # "none"
     /\ actions.kind = "list"
     /\ result.status = "ok"
     /\ criteria \in {ToolCriteria(tools) : tools \in RequiredToolLists}
     /\ result.total_actions < BonusMinActions)
    => result.score =
         Max(0, FullScore
                  - PenaltyTool * Cardinality(FailedTools(actions.items,
                                                          criteria.required_tools))
                  - PenaltyError * Len(result.errors)
                  - PenaltyWarning * Len(result.warnings))


(***************************************************************************)
(* The scorer on its own: _calculate_score is a function of the result     *)
(* map that the analysis has filled in.  The maps are built from the       *)
(* outcomes of the single checks, each consistent with what _check_criteria *)
(* and evaluate store together.                                            *)
(***************************************************************************)
ScoreActionCounts == {9, 10, 500, 501}

ScoreErrors(e) == [i \in 1..e |-> SyntaxError(i - 1, "Unknown action type")]

ScoreWarnings ==
    LET moves == [type |-> "EFFICIENCY_WARNING",
                  message |-> "Multiple consecutive moveTo actions at index",
                  a |-> 0, b |-> 0]
        logic == [type |-> "LOGIC_ERROR", message |-> "Unmatched mouseDown and mouseUp",
                  a |-> 1, b |-> 0]
    IN  { << >>, << moves >>, << logic >>, << moves, logic >> }

ToolFlags(used, selected, actually_used) ==
    [used |-> used, selected |-> selected, actually_used |-> actually_used]

(* Outcomes of the tool checks: the tools required and their flags. *)
ScoreToolOutcomes ==
    { [tool_order |-> << >>, tools |-> << >>],
      [tool_order |-> << "pen" >>, tools |-> [t \in {"pen"} |-> ToolFlags(TRUE, TRUE, TRUE)]],
      [tool_order |-> << "pen" >>, tools |-> [t \in {"pen"} |-> ToolFlags(TRUE, TRUE, FALSE)]],
      [tool_order |-> << "pen", "rectangle" >>,
       tools |-> [t \in {"pen", "rectangle"} |-> ToolFlags(FALSE, FALSE, FALSE)]] }

(* Outcomes of the colour checks: red and black required, some clicked. *)
ScoreColorOutcomes ==
    {[required |-> << >>, used |-> {}]}
      \cup {[required |-> << "#FF0000", "#000000" >>, used |-> u] :
                u \in {{}, {"#FF0000"}, {"#FF0000", "#000000"}}}

(* Outcomes of the segment check: not asked, or asked and failed. *)
ScoreSegmentOutcomes == {[asked |-> FALSE, met |-> TRUE], [asked |-> TRUE, met |-> FALSE]}

(* Outcomes of the coverage checks: the required coverage, the accurate    *)
(* and the coarse estimate.                                                *)
ScoreCoverageOutcomes ==
    { [asked |-> FALSE, required |-> 0, accurate |-> 0, coarse |-> 0],
      [asked |-> TRUE, required |-> 0, accurate |-> 0, coarse |-> 0],
      [asked |-> TRUE, required |-> 100, accurate |-> 0, coarse |-> 0],
      [asked |-> TRUE, required |-> 100, accurate |-> 33, coarse |-> 100],
      [asked |-> TRUE, required |-> 100, accurate |-> 50, coarse |-> 0],
      [asked |-> TRUE, required |-> 100, accurate |-> 100, coarse |-> 0],
      [asked |-> TRUE, required |-> 100, accurate |-> 100, coarse |-> 100] }

AnalysedResult(n, e, warnings, tool, color, segment, coverage) ==
    LET required == SeqRange(color.required)
        has_colors == color.required # << >>
        any == tool.tool_order # << >> \/ has_colors \/ segment.asked \/ coverage.asked
    IN  [BlankResult EXCEPT
            !.status = "ok",
            !.total_actions = n,
            !.has_breakdown = TRUE,
            !.errors = ScoreErrors(e),
            !.warnings = warnings,
            !.metrics = [BlankMetrics EXCEPT
                            !.canvas_coverage = coverage.coarse,
                            !.canvas_coverage_accurate = coverage.accurate],
            !.has_criteria_met = any,
            !.criteria_met =
                [NoCriteriaMet EXCEPT
                    !.tools = tool.tools,
                    !.tool_order = tool.tool_order,
                    !.has_segments = segment.asked,
                    !.min_segments_met = segment.met,
                    !.has_colors = has_colors,
                    !.colors_changed = Cardinality(color.used),
                    !.min_colors_met = Cardinality(color.used) >= Len(color.required),
                    !.colors_exact_used = color.used,
                    !.colors_matched = Cardinality(required \cap color.used),
                    !.colors_missing = required \ color.used,
                    !.min_colors_exact_met =
                        Cardinality(required \cap color.used) >= Cardinality(required),
                    !.has_coverage = coverage.asked,
                    !.canvas_coverage = coverage.coarse,
                    !.min_coverage_met = coverage.coarse >= coverage.required,
                    !.canvas_coverage_accurate = coverage.accurate,
                    !.min_coverage_accurate_met = coverage.accurate >= coverage.required],
            !.has_colors_required = has_colors,
            !.colors_required = Len(color.required),
            !.has_min_coverage = coverage.asked,
            !.min_coverage = coverage.required]

InitScore ==
    /\ self = NewEvaluator
    /\ actions = ListInput(<< >>)
    /\ criteria = NoCriteria
    /\ calls = "none"
    /\ \E n \in ScoreActionCounts, e \in 0..MaxScoreErrors, warnings \in ScoreWarnings,
          tool \in ScoreToolOutcomes, color \in ScoreColorOutcomes,
          segment \in ScoreSegmentOutcomes, coverage \in ScoreCoverageOutcomes :
          result = AnalysedResult(n, e, warnings, tool, color, segment, coverage)
    /\ previous = BlankResult
    /\ edit = NoEdit
    /\ original = BlankResult
    /\ threads = NoThreads
    /\ feedback = NoFeedback

(* results["score"] = self._calculate_score(results) *)
Score ==
    /\ calls = "none"
    /\ calls' = "once"
    /\ result' = [result EXCEPT !.score = CalculateScore(result)]
    /\ UNCHANGED <<self, actions, criteria, previous, edit, original, threads, feedback>>

NextScore == Score

SpecScore == InitScore /\ [][NextScore]_vars


(* The score has been computed from the result map. *)
Scored == calls = "once" /\ result.status = "ok"

(* The running score, in thousandths, after every penalty but the one for  *)
(* coverage.                                                               *)
ScoreBeforeCoverage(results) ==
    FullScore - ToolPenalties(results.criteria_met) - ColorPenalty(results)
      - SegmentPenalty(results.criteria_met) - DiagnosticsPenalty(results)

(* C14: with a required coverage R > 0 and an accurate coverage A < R the  *)
(* scorer subtracts ((R - A) / R) * 0.12; with A >= R, R = 0 or no coverage *)
(* requirement it subtracts nothing for coverage, whatever the coarse      *)
(* check says.  Stated for action counts that earn no bonus.               *)
C14_CoveragePenaltyProportional ==
    (Scored /\ result.total_actions \notin BonusMinActions..BonusMaxActions)
    => LET R == result.min_coverage
           A == result.metrics.canvas_coverage_accurate
           rest == ScoreBeforeCoverage(result)
       IN  IF result.has_min_coverage /\ R > 0 /\ A < R
           THEN result.score = Max(0, RoundDiv(rest * R - PenaltyCoverage * (R - A), R))
           ELSE result.score = Max(0, rest)

(* A third of the required coverage is reached and nothing else is wrong:  *)
(* 1 - (67 / 100) * 0.12 = 0.9196, shown as 0.92.                          *)
C14_Witness ==
    /\ Scored
    /\ result.total_actions = 9
    /\ result.min_coverage = 100
    /\ result.metrics.canvas_coverage_accurate = 33
    /\ result.criteria_met.min_coverage_met
    /\ result.errors = << >>
    /\ result.score = 920


(* C15: the bonus of 0.05 is added exactly when the action count is in     *)
(* [10, 500] and the running score after all penalties is at least 0.2,    *)
(* before the clamp and the rounding.                                      *)
C15_BonusIffInRangeAndFifth ==
    Scored
    => LET cov == CoverageDeficit(result)
           running == ScoreBeforeCoverage(result) * cov.den - PenaltyCoverage * cov.num
           earned == /\ result.total_actions \in BonusMinActions..BonusMaxActions
                     /\ running >= BonusMinScore * cov.den
       IN  result.score =
             Clamp(RoundDiv(running + (IF earned THEN Bonus * cov.den ELSE 0), cov.den))


(* C16: every entry of errors costs 0.08 and every entry of warnings 0.02: *)
(* with no criteria and an action count outside [10, 500] the score is     *)
(* max(0, 1 - 0.08 * |errors| - 0.02 * |warnings|).                        *)
C16_DiagnosticsPenalty ==
    (/\ ReturnedList
     /\ ~criteria.present \/ criteria = EmptyCriteria
     /\ result.total_actions \notin BonusMinActions..BonusMaxActions)
    => result.score = Max(0, FullScore - PenaltyError * Len(result.errors)
                                      - PenaltyWarning * Len(result.warnings))

(* One mouseDown outside the screen and outside the canvas: two errors for *)
(* the one action and the warning for the missing mouseUp, 0.82.           *)
C16_Witness ==
    /\ ReturnedList
    /\ criteria = NoCriteria
    /\ actions.items = << At("mouseDown", 1501, 901) >>
    /\ Len(result.errors) = 2
    /\ result.errors[1].index = result.errors[2].index
    /\ Len(result.warnings) = 1
    /\ result.score = 820


(* The log draws in the region that the prompt names: the drawing family,  *)
(* every coordinate a number.                                              *)
RegionLog ==
    /\ ReturnedList
    /\ \E region \in Regions : criteria = RegionCriteria(region)

(* A segment is open at position p: a mouseDown at or before p with no     *)
(* mouseUp since.                                                          *)
SegmentOpenAt(items, p) ==
    \E d \in 1..p :
        /\ GetAction(items[d]) = "mouseDown"
        /\ \A q \in (d + 1)..p : GetAction(items[q]) # "mouseUp"

(* Where the pointer is at position p: the coordinates the action carries, *)
(* or else those of the last moveTo before it.                             *)
PointerAt(items, p) ==
    LET moves == {q \in 1..(p - 1) : GetAction(items[q]) = "moveTo" /\ HasXY(items[q])}
    IN  IF HasXY(items[p]) THEN << << items[p].x, items[p].y >> >>
        ELSE IF moves = {} THEN << >>
        ELSE << << items[SetMax(moves)].x, items[SetMax(moves)].y >> >>

(* The in-canvas points visited while a segment is open: the position of   *)
(* each mouseDown and each moveTo until the next mouseUp.                  *)
VisitedWhileOpen(items) ==
    LET visitedAt(p) ==
            IF /\ GetAction(items[p]) \in {"mouseDown", "moveTo"}
               /\ SegmentOpenAt(items, p)
            THEN SelectSeq(PointerAt(items, p),
                           LAMBDA q : OnCanvasHalfOpen(self, q[1], q[2]))
            ELSE << >>
    IN  FlatTo([p \in 1..Len(items) |-> visitedAt(p)], Len(items))

(* C18: the centroid is the mean, canvas-relative, of every in-canvas      *)
(* point visited while a segment is open, and is undefined only when there *)
(* is no such point.                                                       *)
C18_CentroidOfVisitedPoints ==
    RegionLog
    => LET centroid == CalculateDrawingCentroid(self, actions.items).value
           visited == VisitedWhileOpen(actions.items)
           n == Len(visited)
           sx == SeqSum([i \in 1..n |-> visited[i][1]]) - n * self.canvas_offset_x
           sy == SeqSum([i \in 1..n |-> visited[i][2]]) - n * self.canvas_offset_y
       IN  /\ centroid.n = 0 <=> n = 0
           /\ centroid.sx * n = sx * centroid.n
           /\ centroid.sy * n = sy * centroid.n


(* The region that the prompt of the criteria names; "" when there is no   *)
(* prompt or it names none.                                                *)
NamedRegion ==
    IF criteria.present /\ criteria.has_prompt
    THEN ExtractSpatialConstraints(criteria.prompt) ELSE ""

(* C17 as stated: spatial_accuracy is null when no in-canvas point is      *)
(* visited while a segment is open or the prompt names no region, and a    *)
(* value in [0, 1] otherwise.                                              *)
C17_NullWithoutDrawing ==
    ReturnedList
    => LET acc == result.metrics.spatial_accuracy
       IN  IF NamedRegion = "" \/ VisitedWhileOpen(actions.items) = << >>
           THEN acc.k = "null"
           ELSE acc.k = "val" /\ AccuracyAtLeastPct(self, acc, 0)

(* C17, amended: spatial_accuracy is null when the prompt names no region; *)
(* when it names one and the log has no drawing point (no centroid) it is  *)
(* 0.0; otherwise it is 1 - distance / diagonal for the distance of the    *)
(* centroid from the centre of the region, and lies in [0, 1].             *)
C17_ZeroWithoutDrawing ==
    ReturnedList
    => LET acc == result.metrics.spatial_accuracy
           centroid == CalculateDrawingCentroid(self, actions.items).value
           centre == RegionCenter6(self, NamedRegion)
           dx == 6 * centroid.sx - centroid.n * centre[1]
           dy == 6 * centroid.sy - centroid.n * centre[2]
       IN  IF NamedRegion = "" THEN acc.k = "null"
           ELSE IF centroid.n = 0 THEN acc.k = "zero"
           ELSE /\ acc.k = "val"
                /\ acc.n = centroid.n
                /\ acc.d2 = dx * dx + dy * dy
                /\ AccuracyAtLeastPct(self, acc, 0)

(* The prompt names the centre and the one mouseDown is pressed outside    *)
(* the canvas: 0.0.                                                        *)
C17_Witness ==
    /\ ReturnedList
    /\ criteria = RegionCriteria("center")
    /\ actions.items = << At("moveTo", 50, 50), Bare("mouseDown") >>
    /\ result.metrics.spatial_accuracy.k = "zero"


(* The swatch that the click at position p selects: the one its own        *)
(* coordinates land on or, failing that, the one the moveTo immediately    *)
(* before it lands on; 0 when the click does not qualify.                  *)
SwatchOfClick(items, p) ==
    LET direct == ColorHit(self, GetX0(items[p]), GetY0(items[p]))
        through == IF p > 1 /\ GetAction(items[p - 1]) = "moveTo"
                   THEN ColorHit(self, GetX0(items[p - 1]), GetY0(items[p - 1]))
                   ELSE 0
    IN  IF direct # 0 THEN direct ELSE through

Clicks(items) == {p \in 1..Len(items) : GetAction(items[p]) = "click"}

(* C19: exact_colors_used holds exactly one hex code for each qualifying   *)
(* click, in the order of the clicks, so it is never longer than the       *)
(* number of click actions.                                                *)
C19_OneHexPerQualifyingClick ==
    ReturnedList
    => LET items == actions.items
           hexAt(p) == IF p \in Clicks(items) /\ SwatchOfClick(items, p) # 0
                       THEN << self.color_positions[SwatchOfClick(items, p)].hex >>
                       ELSE << >>
       IN  /\ result.metrics.exact_colors_used
                = FlatTo([p \in 1..Len(items) |-> hexAt(p)], Len(items))
           /\ Len(result.metrics.exact_colors_used) <= Cardinality(Clicks(items))


(* The strict check as C20 states it, for a tool of the layout: where the  *)
(* tool is first selected, the mouseDowns after that, and the positions    *)
(* after that at which another tool is selected (by a click that carries   *)
(* coordinates on its button, or a moveTo onto its button that a click     *)
(* follows).                                                               *)
StatedStrictCheck(items, tool) ==
    LET t == ToolIndex(self, tool)
        stop == SelectionStop(items, self.tool_positions[t])
        first == IF GetAction(items[stop]) = "moveTo" THEN stop + 1 ELSE stop
        downs == {q \in (first + 1)..Len(items) : GetAction(items[q]) = "mouseDown"}
        others == {q \in (first + 1)..Len(items) :
                      \E o \in OtherButtons(self, t) :
                          PatternSelects(items, q, self.tool_positions[o])}
    IN  IF t = 0 THEN [selected |-> FALSE, used |-> FALSE]
        ELSE IF stop = 0 THEN [selected |-> FALSE, used |-> FALSE]
        ELSE [selected |-> TRUE,
              used |-> /\ downs # {}
                       /\ \A q \in others : SetMin(downs) < q]

(* C20: for every required tool the strict check gives (true, true) if a   *)
(* mouseDown follows the tool's first selection before any other tool is   *)
(* selected, (true, false) if another tool is selected first or no         *)
(* mouseDown follows, and (false, false) if the tool is never selected or  *)
(* is not in the layout.                                                   *)
C20_UsedUnlessOtherToolSelected ==
    (ReturnedList /\ criteria.present /\ criteria.has_tools)
    => \A tool \in SeqRange(criteria.required_tools) :
          LET stated == StatedStrictCheck(actions.items, tool)
              flags == result.criteria_met.tools[tool]
          IN  /\ flags.selected = stated.selected
              /\ flags.actually_used = stated.used


(* C21 as stated: for every evaluation of a list, with or without          *)
(* criteria, the syntax_errors bucket of the classification holds the      *)
(* entries of the result's errors list, in the same order.                 *)
C21_SyntaxErrorsPassThrough ==
    ReturnedList
    => /\ result.has_classification
       /\ result.error_classification.syntax_errors = result.errors

(* The caller gave criteria with at least one key. *)
GivenCriteria ==
    /\ criteria.present
    /\ \/ criteria.has_tools \/ criteria.has_colors \/ criteria.has_segments
       \/ criteria.has_coverage \/ criteria.has_prompt

(* C21, amended: with criteria that have at least one key the              *)
(* syntax_errors bucket holds the entries of the errors list in the same   *)
(* order; without criteria, or with empty criteria, all five buckets are   *)
(* empty, whatever the errors list holds.                                  *)
C21_PassThroughWithCriteria ==
    ReturnedList
    => /\ result.has_classification
       /\ IF GivenCriteria
          THEN result.error_classification.syntax_errors = result.errors
          ELSE \A bucket \in DOMAIN result.error_classification :
                  result.error_classification[bucket] = << >>

(* Empty criteria, a log with an error, and an empty syntax_errors bucket. *)
C21_Witness ==
    /\ ReturnedList
    /\ criteria = EmptyCriteria
    /\ result.errors # << >>
    /\ result.error_classification.syntax_errors = << >>


ErrorTypes == {"SYNTAX_ERROR", "COORDINATE_ERROR"}
WarningTypes == {"EFFICIENCY_WARNING", "LOGIC_ERROR"}

(* Entries i < j of a list are in ascending action index. *)
Ascending(errors, i, j) == errors[i].index <= errors[j].index

(* C22 as stated: in the errors list every SYNTAX_ERROR entry precedes     *)
(* every COORDINATE_ERROR entry, the entries of each type are in ascending *)
(* action index, and the warnings are a separate list.                     *)
C22_SyntaxBeforeCoordinate ==
    ReturnedList
    => /\ \A i, j \in 1..Len(result.errors) :
             i < j =>
                /\ ~(result.errors[i].type = "COORDINATE_ERROR"
                       /\ result.errors[j].type = "SYNTAX_ERROR")
                /\ result.errors[i].type = result.errors[j].type
                       => Ascending(result.errors, i, j)
       /\ \A i \in 1..Len(result.errors) : result.errors[i].type \in ErrorTypes
       /\ \A w \in 1..Len(result.warnings) : result.warnings[w].type \in WarningTypes

(* The pass that emits an entry of the errors list: the coordinate pass    *)
(* emits the COORDINATE_ERROR entries and the SYNTAX_ERROR entries for     *)
(* coordinates that are not numbers, the syntax pass the rest.             *)
PassOf(error) ==
    IF error.type = "COORDINATE_ERROR" \/ error.message = "Invalid coordinate types"
    THEN 2 ELSE 1

(* C22, amended: every entry of the syntax pass precedes every entry of    *)
(* the coordinate pass, the entries of each pass are in ascending action   *)
(* index, the SYNTAX_ERROR entries of the coordinate pass stand among its  *)
(* COORDINATE_ERROR entries, and the warnings are a separate list.         *)
C22_SyntaxPassBeforeCoordinatePass ==
    ReturnedList
    => /\ \A i, j \in 1..Len(result.errors) :
             i < j =>
                /\ PassOf(result.errors[i]) <= PassOf(result.errors[j])
                /\ PassOf(result.errors[i]) = PassOf(result.errors[j])
                       => Ascending(result.errors, i, j)
       /\ \A i \in 1..Len(result.errors) : result.errors[i].type \in ErrorTypes
       /\ \A w \in 1..Len(result.warnings) : result.warnings[w].type \in WarningTypes

(* Both passes report, the coordinate pass a SYNTAX_ERROR after a          *)
(* COORDINATE_ERROR, and there is a warning.                               *)
C22_Witness ==
    /\ ReturnedList
    /\ \E i, j, k \in 1..Len(result.errors) :
          /\ i < j /\ j < k
          /\ PassOf(result.errors[i]) = 1
          /\ result.errors[j].type = "COORDINATE_ERROR"
          /\ result.errors[k].type = "SYNTAX_ERROR"
    /\ result.warnings # << >>


(***************************************************************************)
(* Pointer logs: moves of the pointer and button releases, long enough for *)
(* two separate runs of three moveTo, evaluated once without criteria.     *)
(***************************************************************************)
MoveActions == { At("moveTo", 590, 420), Bare("mouseUp") }

InitMoves ==
    /\ self = NewEvaluator
    /\ actions \in {ListInput(l) : l \in SeqsUpTo(MoveActions, MaxMoveLen)}
    /\ criteria = NoCriteria
    /\ calls = "none"
    /\ result = BlankResult
    /\ previous = BlankResult
    /\ edit = NoEdit
    /\ original = BlankResult
    /\ threads = NoThreads
    /\ feedback = NoFeedback

NextMoves == Evaluate

SpecMoves == InitMoves /\ [][NextMoves]_vars

(* A run: positions s..t (1-based) of a log that all hold a moveTo, with   *)
(* no moveTo just before s or just after t.                                *)
MoveRun(items, s, t) ==
    /\ s <= t
    /\ \A p \in s..t : GetAction(items[p]) = "moveTo"
    /\ s = 1 \/ GetAction(items[s - 1]) # "moveTo"
    /\ t = Len(items) \/ GetAction(items[t + 1]) # "moveTo"

(* The starts of the runs of three or more moveTo. *)
LongRunStarts(items) ==
    {s \in 1..Len(items) : \E t \in 1..Len(items) : MoveRun(items, s, t) /\ t - s + 1 >= 3}

ConsecutiveMoveWarnings(warnings) ==
    SelectSeq(warnings, LAMBDA w : w.type = "EFFICIENCY_WARNING"
                  /\ w.message = "Multiple consecutive moveTo actions at index")

(* C23: the warnings hold exactly one consecutive-moveTo                   *)
(* EFFICIENCY_WARNING, naming the start index of the first run, if the log *)
(* has a run of three or more moveTo, and none otherwise, however many     *)
(* such runs there are.                                                    *)
C23_OneWarningForFirstRun ==
    ReturnedList
    => LET runs == LongRunStarts(Log)
           found == ConsecutiveMoveWarnings(result.warnings)
       IN  IF runs = {} THEN found = << >>
           ELSE /\ Len(found) = 1
                /\ \A s \in runs : found[1].a + 1 <= s
                /\ found[1].a + 1 \in runs

(* Two runs of three moveTo, the first starting after a release, and one   *)
(* warning that names the first.                                           *)
C23_Witness ==
    /\ ReturnedList
    /\ Cardinality(LongRunStarts(Log)) = 2
    /\ 2 \in LongRunStarts(Log)
    /\ Len(ConsecutiveMoveWarnings(result.warnings)) = 1
    /\ ConsecutiveMoveWarnings(result.warnings)[1].a = 1


(***************************************************************************)
(* Rectangle logs: a click on the rectangle button, then presses and       *)
(* releases at points left of and above the canvas, on its first cell      *)
(* boundary, on its far corner and beyond it, or without coordinates,      *)
(* evaluated without criteria.                                             *)
(***************************************************************************)
RectanglePoints ==
    { <<50, 50>>, <<80, 60>>, <<139, 104>>, <<140, 105>>, <<1090, 770>>, <<1100, 780>> }

RectangleActions ==
    {At(t, q[1], q[2]) : t \in {"mouseDown", "mouseUp"}, q \in RectanglePoints}
        \cup {Bare("mouseDown"), Bare("mouseUp")}

SelectRectangle == At("click", 345, 25)

InitRectangle ==
    /\ self = NewEvaluator
    /\ actions \in {ListInput(<< SelectRectangle >> \o l) :
                        l \in SeqsUpTo(RectangleActions, MaxRectangleLen)}
    /\ criteria = NoCriteria
    /\ calls = "none"
    /\ result = BlankResult
    /\ previous = BlankResult
    /\ edit = NoEdit
    /\ original = BlankResult
    /\ threads = NoThreads
    /\ feedback = NoFeedback

NextRectangle == Evaluate

SpecRectangle == InitRectangle /\ [][NextRectangle]_vars

(* The last-known position at p: the coordinates of the latest action up   *)
(* to p that carries both.                                                 *)
LastKnownAt(items, p) ==
    LET q == SetMax({r \in 1..p : HasXY(items[r])})
    IN  << items[q].x, items[q].y >>

(* The releases that end a segment, and the press each one ends. *)
SegmentEnds(items) ==
    {u \in 2..Len(items) : GetAction(items[u]) = "mouseUp" /\ SegmentOpenAt(items, u - 1)}

PressOf(items, u) == SetMax({d \in 1..(u - 1) : GetAction(items[d]) = "mouseDown"})

(* The cells <<gy, gx>> of the grid whose pixel range, canvas-relative     *)
(* [gx * w, (gx + 1) * w) by [gy * h, (gy + 1) * h) for cells of w by h    *)
(* pixels, has a point in common with the rectangle spanned by two screen  *)
(* points.                                                                 *)
CellsMeeting(a, b) ==
    LET lo_x == Min(a[1], b[1]) - self.canvas_offset_x
        hi_x == Max(a[1], b[1]) - self.canvas_offset_x
        lo_y == Min(a[2], b[2]) - self.canvas_offset_y
        hi_y == Max(a[2], b[2]) - self.canvas_offset_y
    IN  {c \in (0..(GridSize - 1)) \X (0..(GridSize - 1)) :
            /\ lo_x * GridSize < (c[2] + 1) * self.canvas_width
            /\ hi_x * GridSize >= c[2] * self.canvas_width
            /\ lo_y * GridSize < (c[1] + 1) * self.canvas_height
            /\ hi_y * GridSize >= c[1] * self.canvas_height}

RectangleCells(items) ==
    UNION {CellsMeeting(LastKnownAt(items, PressOf(items, u)), LastKnownAt(items, u)) :
              u \in SegmentEnds(items)}

RectangleLog == ReturnedList /\ Len(Log) >= 1 /\ Log[1] = SelectRectangle

(* C24: with the rectangle tool, the cells marked at the mouseUp of a      *)
(* segment are exactly the cells of the 20 x 20 grid whose pixel range     *)
(* meets the rectangle spanned by the mouseDown and mouseUp positions      *)
(* (the last-known position where coordinates are omitted), so the         *)
(* accurate coverage is their share of the grid, and a rectangle wholly    *)
(* outside the canvas marks no cell.                                       *)
C24_RectangleMarksCellsItMeets ==
    RectangleLog
    => result.metrics.canvas_coverage_accurate * GridSize * GridSize
          = Cardinality(RectangleCells(Log)) * CovUnit


(***************************************************************************)
(* Window logs: one selection attempt at a point on, just inside or just   *)
(* outside the edge of a tool or swatch window, or where two windows       *)
(* overlap, made by a click, by a moveTo that a click follows, or by a     *)
(* moveTo alone, and then one stroke on the canvas that tells the tools    *)
(* apart by the cells it marks.                                            *)
(***************************************************************************)
WindowXs == {204, 205, 210, 270, 285, 286, 345, 384, 385, 408, 409, 429, 430, 453, 465, 466}
WindowYs == {-15, -14, 16, 17, 25, 33, 34, 64, 65}

ProbeStroke ==
    << At("mouseDown", 589, 419), At("moveTo", 700, 500), At("moveTo", 800, 600),
       At("mouseUp", 590, 420) >>

SelectionAttempts(x, y) ==
    { << At("click", x, y) >>, << At("moveTo", x, y), Bare("click") >>, << At("moveTo", x, y) >> }

InitWindow ==
    /\ self = NewEvaluator
    /\ \E x \in WindowXs, y \in WindowYs :
          actions \in {ListInput(s \o ProbeStroke) : s \in SelectionAttempts(x, y)}
    /\ criteria = NoCriteria
    /\ calls = "none"
    /\ result = BlankResult
    /\ previous = BlankResult
    /\ edit = NoEdit
    /\ original = BlankResult
    /\ threads = NoThreads
    /\ feedback = NoFeedback

NextWindow == Evaluate

SpecWindow == InitWindow /\ [][NextWindow]_vars

(* The cells the stroke marks under each tool: the press and the two moves *)
(* with the pen or the eraser, the four cells around the cell corner the   *)
(* stroke crosses with the rectangle, the two cells of its end points with *)
(* the line, the cell of its centre with the circle.                       *)
ProbeCells(tool) ==
    CASE tool \in PenTools -> 3
      [] tool = "rectangle" -> 4
      [] tool = "line" -> 2
      [] tool = "circle" -> 1

(* A window log makes a selection: its first action is a click, or a       *)
(* moveTo that a click follows immediately.                                *)
WindowLog == ReturnedList /\ Len(Log) >= 5

Selects(items) ==
    \/ GetAction(items[1]) = "click"
    \/ GetAction(items[1]) = "moveTo" /\ GetAction(items[2]) = "click"

(* Window membership, edges included and edges excluded. *)
WithinClosed(v, c, tol) == c - tol <= v /\ v <= c + tol
WithinOpen(v, c, tol) == c - tol < v /\ v < c + tol

(* The entries of the tool table whose window holds the point of the       *)
(* first action, with the edges as hits or not, and those of the colour    *)
(* table, edges as hits.                                                   *)
ToolsAround(items, closed) ==
    {t \in 1..Len(self.tool_positions) :
        IF closed
        THEN /\ WithinClosed(items[1].x, self.tool_positions[t].x, 40)
             /\ WithinClosed(items[1].y, self.tool_positions[t].y, 40)
        ELSE /\ WithinOpen(items[1].x, self.tool_positions[t].x, 40)
             /\ WithinOpen(items[1].y, self.tool_positions[t].y, 40)}

SwatchesAround(items) ==
    {c \in 1..Len(self.color_positions) :
        /\ WithinClosed(items[1].x, self.color_positions[c].x, 12)
        /\ WithinClosed(items[1].y, self.color_positions[c].y, 8)}

(* What the result shows when the first entry in declaration order of the  *)
(* given tools and swatches is chosen: the stroke drawn with that tool     *)
(* (the pen when none is selected) and the hex code of that swatch.        *)
ShowsFirstOf(tools, swatches) ==
    LET tool == IF Selects(Log) /\ tools # {}
                THEN self.tool_positions[SetMin(tools)].name ELSE "pen"
        hexes == IF Selects(Log) /\ swatches # {}
                 THEN << self.color_positions[SetMin(swatches)].hex >> ELSE << >>
    IN  /\ result.metrics.canvas_coverage_accurate * GridSize * GridSize
              = ProbeCells(tool) * CovUnit
        /\ result.metrics.exact_colors_used = hexes

(* C25 as stated: a click, or a moveTo immediately followed by a click,    *)
(* selects the first tool in declaration order whose centre is within 40   *)
(* px of its point on each axis and resolves the first colour within 12 px *)
(* in x and 8 px in y, the window edges counting as hits for both.         *)
C25_EdgesHitForToolsAndColours ==
    WindowLog => ShowsFirstOf(ToolsAround(Log, TRUE), SwatchesAround(Log))

(* C25, amended: as stated, but a point exactly 40 px from a tool's centre *)
(* on an axis is outside that tool's window, while a point exactly 12 px   *)
(* (x) or 8 px (y) from a swatch's centre is inside the swatch's window.   *)
C25_ToolEdgesExcluded ==
    WindowLog => ShowsFirstOf(ToolsAround(Log, FALSE), SwatchesAround(Log))

(* A click on the edge of the pen's window and inside the circle's draws   *)
(* with the circle; a click on the edge of a swatch's window resolves it.  *)
C25_Witness ==
    /\ WindowLog
    /\ Log[1] \in {At("click", 205, 25), At("click", 465, 33)}
    /\ Log[1] = At("click", 205, 25)
          => result.metrics.canvas_coverage_accurate * GridSize * GridSize = 1 * CovUnit
    /\ Log[1] = At("click", 465, 33)
          => result.metrics.exact_colors_used = << "#FF0000" >>


(* criteria_met[key] for a per-tool key of the result. *)
CriteriaMetValue(key) ==
    ToolEntryValue(ToolEntries(result.criteria_met, Len(result.criteria_met.tool_order)), key)

(* C26: for every required tool T, criteria_met[tool_T_used] equals        *)
(* criteria_met[tool_T_selected], criteria_met[tool_T_actually_used]       *)
(* implies criteria_met[tool_T_selected], and all three are false for a    *)
(* tool that is not in the layout.                                         *)
C26_LooseAndStrictConsistent ==
    (ReturnedList /\ Truthy(criteria) /\ criteria.has_tools)
    => \A tool \in SeqRange(criteria.required_tools) :
          LET used == CriteriaMetValue(UsedKey(ToolWords(tool)))
              selected == CriteriaMetValue(SelectedKey(ToolWords(tool)))
              actually_used == CriteriaMetValue(ActuallyUsedKey(ToolWords(tool)))
          IN  /\ used = selected
              /\ actually_used => selected
              /\ (\A t \in 1..Len(self.tool_positions) : self.tool_positions[t].name # tool)
                    => (~used /\ ~selected /\ ~actually_used)

====
